---- MODULE Spec2Model ----
(***************************************************************************)
(* Block-translation engines of dissect.hypervisor.                        *)
(*                                                                         *)
(* Every format is one specification over the same three variables: the   *)
(* opened object, the last call made on it and what that call returned.   *)
(*                                                                         *)
(* A byte string is a sequence of cells.  A cell <<src, off>> stands for   *)
(* one unit of data of the file or stream src at offset off, so that two  *)
(* reads agree exactly when they deliver the same stored data in the same *)
(* order.  Every unit of every file holds different data; ZERO is the     *)
(* unit of zero bytes.                                                     *)
(***************************************************************************)
EXTENDS Integers, Sequences, FiniteSets, TLC

VARIABLES disk, call, ret

vars == <<disk, call, ret>>

----------------------------------------------------------------------------
(* Byte strings *)

ZERO == <<"zero", 0>>

\* b"\x00" * n, one cell per unit of g bytes
Zeros(n, g) == [i \in 1..(n \div g) |-> ZERO]

\* fh.seek(off); fh.read(n) on a file that holds the range, one cell per g bytes
Data(src, off, n, g) == [i \in 1..(n \div g) |-> <<src, off + (i - 1) * g>>]

Min(a, b) == IF a <= b THEN a ELSE b

Max(a, b) == IF a >= b THEN a ELSE b

\* the cells i..j of s (1-based, inclusive); empty when j < i
Slice(s, i, j) == IF j < i THEN <<>> ELSE SubSeq(s, i, Min(j, Len(s)))

----------------------------------------------------------------------------
(* VDI: disk/vdi.py *)

VDI_IMAGE_BLOCK_FREE == -1
VDI_IMAGE_BLOCK_ZERO == -2

\* header.cbBlock, in bytes; one cell is one byte
VdiBlockSize == 2
\* header.cBlocks
VdiBlocks == 3
\* largest physical block index stored in the block map
VdiMaxPhys == 2
\* header.offData
VdiDataOffset == 4

\* VDIStream._read with the loop unrolled as recursion over its locals
RECURSIVE VDI_read_loop(_, _, _, _, _, _)
VDI_read_loop(vdi, offset, length, block_idx, offset_in_block, result) ==
    IF length <= 0 THEN [ok |-> TRUE, data |-> result]
    ELSE
      LET read_len == Min(length, Max(length, vdi.block_size - offset_in_block)) IN
      IF block_idx >= Len(vdi.map) THEN [ok |-> FALSE, data |-> <<>>]   \* IndexError
      ELSE
        LET block == vdi.map[block_idx + 1]
            buf == IF block = VDI_IMAGE_BLOCK_FREE
                     THEN IF vdi.parent
                            THEN Data("parent", offset, read_len, 1)
                            ELSE Zeros(read_len, 1)
                   ELSE IF block = VDI_IMAGE_BLOCK_ZERO
                     THEN Zeros(read_len, 1)
                   ELSE Data("fh", vdi.data_offset + (block * vdi.block_size) + offset_in_block,
                             read_len, 1)
        IN VDI_read_loop(vdi, offset + read_len, length - read_len, block_idx + 1,
                         offset_in_block, result \o buf)

VDIStream_read(vdi, offset, length) ==
    VDI_read_loop(vdi, offset, length, offset \div vdi.block_size,
                  offset % vdi.block_size, <<>>)

\* the images: every block map over free, zero and stored blocks, with or without parent
VdiImages ==
    [map : [1..VdiBlocks -> {VDI_IMAGE_BLOCK_FREE, VDI_IMAGE_BLOCK_ZERO} \cup 0..VdiMaxPhys],
     parent : BOOLEAN,
     block_size : {VdiBlockSize},
     data_offset : {VdiDataOffset}]

InitVDI ==
    /\ disk \in VdiImages
    /\ call = [op |-> "open"]
    /\ ret = [ok |-> TRUE, data |-> <<>>]

\* AlignedStream hands _read block-aligned requests inside the disk
VDIRead ==
    /\ \E b \in 0..(VdiBlocks - 1) : \E n \in 1..(VdiBlocks - b) :
         /\ call' = [op |-> "_read", offset |-> b * disk.block_size,
                     length |-> n * disk.block_size]
         /\ ret' = VDIStream_read(disk, b * disk.block_size, n * disk.block_size)
    /\ UNCHANGED disk

SpecVDI == InitVDI /\ [][VDIRead]_vars

\* what block i of the disk holds, per its own block map entry
VdiBlockBytes(vdi, i) ==
    LET block == vdi.map[i + 1] IN
    IF block = VDI_IMAGE_BLOCK_FREE
      THEN IF vdi.parent THEN Data("parent", i * vdi.block_size, vdi.block_size, 1)
                         ELSE Zeros(vdi.block_size, 1)
    ELSE IF block = VDI_IMAGE_BLOCK_ZERO THEN Zeros(vdi.block_size, 1)
    ELSE Data("fh", vdi.data_offset + block * vdi.block_size, vdi.block_size, 1)

\* C3: a VDI read covering several blocks resolves each block through its own
\* block map entry (parent or zeros for -1, zeros for -2, stored bytes otherwise)
\* and returns exactly length bytes.
C3_PerBlockTranslation ==
    (call.op = "_read") =>
        /\ ret.ok
        /\ Len(ret.data) = call.length
        /\ \A k \in 0..((call.length \div disk.block_size) - 1) :
             Slice(ret.data, k * disk.block_size + 1, (k + 1) * disk.block_size)
               = VdiBlockBytes(disk, (call.offset \div disk.block_size) + k)

----------------------------------------------------------------------------
(* Parallels HDS and HDD: disk/hdd.py *)

SECTOR_SIZE == 512

\* None, for a local that holds an offset or None
None == -1

\* header.m_Sectors: sectors per cluster
HdsSectors == 2
\* header.m_Size: entries of the BAT; the disk has as many clusters
HdsClusters == 3
\* largest BAT entry stored
HdsMaxBat == 2
\* longest snapshot chain
HdsMaxChain == 2

\* the file of the image at position k of the chain (1 = root)
ImageFile == <<"image1", "image2", "image3", "image4">>

\* HDS._iter_runs: the runs of (offset, length), each <<physical offset or None, size>>
RECURSIVE HDS_iter_runs(_, _, _, _, _, _)
HDS_iter_runs(hds, offset, length, run_offset, run_size, runs) ==
    IF offset < hds.size /\ length > 0
      THEN LET cluster_idx == offset \div hds.cluster_size
               offset_in_cluster == offset % hds.cluster_size
               read_size == Min(hds.cluster_size - offset_in_cluster, length)
               bat_entry == hds.bat[cluster_idx + 1]
               read_offset == IF bat_entry = 0 THEN 0
                              ELSE (bat_entry * hds.bat_multiplier * SECTOR_SIZE) + offset_in_cluster
           IN IF run_offset = None
                THEN HDS_iter_runs(hds, offset + read_size, length - read_size,
                                   read_offset, read_size, runs)
              ELSE IF (read_offset = run_offset + run_size)
                        \/ (run_offset = 0 /\ read_offset = 0)
                THEN HDS_iter_runs(hds, offset + read_size, length - read_size,
                                   run_offset, run_size + read_size, runs)
              ELSE HDS_iter_runs(hds, offset + read_size, length - read_size,
                                 read_offset, read_size,
                                 Append(runs, <<IF run_offset = 0 THEN None ELSE run_offset, run_size>>))
    ELSE IF run_offset # None
      THEN Append(runs, <<IF run_offset = 0 THEN None ELSE run_offset, run_size>>)
    ELSE runs

\* HDS._read of the image at position k of the chain, and the read it makes
\* of its parent, the HDS at position k - 1
RECURSIVE HDS_read(_, _, _, _)
RECURSIVE HDS_parent_read(_, _, _, _)

\* self.parent.seek(pos); self.parent.read(n) on the stream of layers[k]: HDS
\* leaves the alignment of its AlignedStream at the default of 8192 bytes, so
\* the stream clamps n to its size and calls _read for the 8192-byte block of
\* a misaligned head, for the whole blocks, and for the block of the tail
HDS_parent_read(layers, k, pos, n0) ==
    LET align == 8192
        size == layers[k].size
        n == Min(n0, size - pos)
        pos_align == pos - (pos % align)
        head_len == IF pos # pos_align THEN Min(n, align - (pos - pos_align)) ELSE 0
        mid_len == IF n - head_len >= align THEN ((n - head_len) \div align) * align ELSE 0
        tail_len == n - head_len - mid_len
        head == IF head_len > 0
                  THEN Slice(HDS_read(layers, k, pos_align, align),
                             ((pos - pos_align) \div SECTOR_SIZE) + 1,
                             (pos - pos_align + head_len) \div SECTOR_SIZE)
                ELSE <<>>
        mid == IF mid_len > 0 THEN HDS_read(layers, k, pos + head_len, mid_len) ELSE <<>>
        tail == IF tail_len > 0
                  THEN Slice(HDS_read(layers, k, pos + head_len + mid_len, align),
                             1, tail_len \div SECTOR_SIZE)
                ELSE <<>>
    IN IF n = 0 \/ size <= pos THEN <<>> ELSE head \o mid \o tail

HDS_read(layers, k, offset, length) ==
    LET hds == layers[k]
        runs == HDS_iter_runs(hds, offset, length, None, 0, <<>>)
        \* the bytes of runs i.., the i-th starting at logical offset off
        RunBytes[i \in 1..(Len(runs) + 1), off \in 0..(offset + length)] ==
            IF i > Len(runs) THEN <<>>
            ELSE LET read_offset == runs[i][1]
                     read_size == runs[i][2]
                     buf == IF read_offset = None
                              THEN IF k > 1
                                     THEN HDS_parent_read(layers, k - 1, off, read_size)
                                     ELSE Zeros(read_size, SECTOR_SIZE)
                            ELSE Data(ImageFile[k], read_offset, read_size, SECTOR_SIZE)
                 IN buf \o RunBytes[i + 1, off + read_size]
    IN RunBytes[1, offset]

\* HDS.__init__ for every image of a chain: BAT, multiplier (1 for v1, m_Sectors
\* for v2), cluster size and disk size
HdsLayers(mult) ==
    [bat : [1..HdsClusters -> 0..HdsMaxBat],
     bat_multiplier : {mult},
     cluster_size : {HdsSectors * SECTOR_SIZE},
     size : {HdsClusters * HdsSectors * SECTOR_SIZE}]

\* HDD.open: the images of the snapshot chain stacked root first, each the
\* parent of the next
InitHDS ==
    /\ \E n \in 1..HdsMaxChain : \E mult \in {1, HdsSectors} :
         disk \in [layers : [1..n -> HdsLayers(mult)]]
    /\ call = [op |-> "open"]
    /\ ret = <<>>

\* a read of the top stream; requests are sector-aligned and inside the disk
HDSRead ==
    /\ \E s \in 0..(HdsClusters * HdsSectors - 1) :
       \E n \in 1..(HdsClusters * HdsSectors - s) :
         /\ call' = [op |-> "_read", offset |-> s * SECTOR_SIZE, length |-> n * SECTOR_SIZE]
         /\ ret' = HDS_read(disk.layers, Len(disk.layers), s * SECTOR_SIZE, n * SECTOR_SIZE)
    /\ UNCHANGED disk

SpecHDS == InitHDS /\ [][HDSRead]_vars

\* the sector at byte offset off of image k, by the BAT entry of its own cluster:
\* stored in the image file, or what the parent stream returns there
HdsSectorByOwnEntry(layers, k, off) ==
    LET hds == layers[k]
        bat_entry == hds.bat[(off \div hds.cluster_size) + 1]
    IN IF bat_entry # 0
         THEN <<ImageFile[k], bat_entry * hds.bat_multiplier * SECTOR_SIZE + (off % hds.cluster_size)>>
       ELSE IF k > 1 THEN HDS_parent_read(layers, k - 1, off, SECTOR_SIZE)[1]
       ELSE ZERO

\* C4: every cluster of a request is read at bat_entry * bat_multiplier * 512 +
\* offset_in_cluster when its BAT entry is non-zero and from the parent (zeros
\* without one) when it is 0, whatever runs the clusters were coalesced into.
C4_ClusterTranslation ==
    (call.op = "_read") =>
        /\ Len(ret) = call.length \div SECTOR_SIZE
        /\ \A i \in 1..(call.length \div SECTOR_SIZE) :
             ret[i] = HdsSectorByOwnEntry(disk.layers, Len(disk.layers),
                                          call.offset + (i - 1) * SECTOR_SIZE)

\* the sector at byte offset off of the chain up to image k: the newest image
\* with a non-zero BAT entry for the cluster, zeros when there is none
RECURSIVE HdsChainSector(_, _, _)
HdsChainSector(layers, k, off) ==
    IF k = 0 THEN ZERO
    ELSE LET hds == layers[k]
             bat_entry == hds.bat[(off \div hds.cluster_size) + 1]
         IN IF bat_entry # 0
              THEN <<ImageFile[k], bat_entry * hds.bat_multiplier * SECTOR_SIZE + (off % hds.cluster_size)>>
            ELSE HdsChainSector(layers, k - 1, off)

\* C8: the stacked chain reads every cluster from the newest image whose BAT
\* entry for it is non-zero, falls through to older images on 0 and reads zeros
\* when no image has it.
C8_ChainOrdering ==
    (call.op = "_read") =>
        /\ Len(ret) = call.length \div SECTOR_SIZE
        /\ \A i \in 1..(call.length \div SECTOR_SIZE) :
             ret[i] = HdsChainSector(disk.layers, Len(disk.layers),
                                     call.offset + (i - 1) * SECTOR_SIZE)

----------------------------------------------------------------------------
(* Parallels split storage: StorageStream of disk/hdd.py *)

\* most Storage elements of a DiskDescriptor.xml
StorageCount == 3

\* largest Start of a Storage element, in sectors
StorageMaxStart == 4

\* the image stream of the i-th Storage element of the descriptor
StorageFile == <<"storage1", "storage2", "storage3", "storage4", "storage5">>

\* the Storage elements of a descriptor in the order it lists them, Start and
\* End as the file gives them: the ranges may leave sectors out or share
\* sectors. Every image is Plain, so that the stream of the i-th element is the
\* file that path.open("rb") returns; it holds End - Start sectors.
Storages(start, len) ==
    [p \in 1..Len(start) |-> [start |-> start[p],
                              end |-> start[p] + len[p],
                              stream |-> StorageFile[p]]]

\* sorted(streams, key=lambda entry: entry[0].start): a stable sort, elements
\* with the same start stay in the order of the list
SortByStart(streams) ==
    LET n == Len(streams)
        Rank(i) == Cardinality({j \in 1..n : \/ streams[j].start < streams[i].start
                                             \/ /\ streams[j].start = streams[i].start
                                                /\ j < i}) + 1
    IN [r \in 1..n |-> streams[CHOOSE i \in 1..n : Rank(i) = r]]

\* bisect_right(a, x): the number of leading elements of the sorted list a that are <= x
bisect_right(a, x) == Cardinality({i \in 1..Len(a) : a[i] <= x})

\* StorageStream.__init__: the sorted streams, the lookup list and the size
StorageStream_init(streams) ==
    LET sorted == SortByStart(streams)
    IN [streams |-> sorted,
        lookup |-> [i \in 1..Len(sorted) |-> sorted[i].start],
        size |-> sorted[Len(sorted)].end * SECTOR_SIZE]

\* a seek to the disk-wide sector instead of the storage-relative one
StorageSeekAbsolute(storage, sector) == sector * SECTOR_SIZE

\* stream.seek(...) of StorageStream._read: where a storage's stream is read for sector
StorageSeek(storage, sector) == (sector - storage.start) * SECTOR_SIZE

\* stream.read(n) after stream.seek(off) on a storage's stream, which holds
\* (end - start) sectors
StorageStreamRead(storage, off, n) ==
    Data(storage.stream, off,
         Max(0, Min(n, (storage.end - storage.start) * SECTOR_SIZE - off)), SECTOR_SIZE)

\* the while loop of StorageStream._read; stream_idx is the 0-based list index,
\* and streams[-1], the index of a sector below every start, is the last
\* element of the list. The stream is a file opened "rb": seek to a negative
\* offset raises OSError, read of a negative length other than -1 raises
\* ValueError, and the exception leaves _read.
RECURSIVE StorageStream_loop(_, _, _, _, _)
StorageStream_loop(st, sector, count, stream_idx, result) ==
    IF count > 0 /\ stream_idx < Len(st.streams)
      THEN LET storage == st.streams[IF stream_idx < 0 THEN Len(st.streams) + 1 + stream_idx
                                     ELSE stream_idx + 1]
               sectors_remaining == storage.end - sector
               read_sectors == Min(sectors_remaining, count)
               off == StorageSeek(storage, sector)
           IN IF off < 0 THEN [error |-> "OSError", data |-> <<>>]
              ELSE IF read_sectors * SECTOR_SIZE < -1 THEN [error |-> "ValueError", data |-> <<>>]
              ELSE StorageStream_loop(st, sector + read_sectors, count - read_sectors,
                       stream_idx + 1,
                       result \o StorageStreamRead(storage, off, read_sectors * SECTOR_SIZE))
    ELSE [error |-> "", data |-> result]

StorageStream_read(st, offset, length) ==
    StorageStream_loop(st, offset \div SECTOR_SIZE,
                       (length + SECTOR_SIZE - 1) \div SECTOR_SIZE,
                       bisect_right(st.lookup, offset \div SECTOR_SIZE) - 1, <<>>)

\* StorageStream(streams) as HDD.open builds it from a descriptor of one to
\* StorageCount Storage elements of one or two sectors
InitStorage ==
    /\ \E n \in 1..StorageCount :
       \E start \in [1..n -> 0..StorageMaxStart] : \E len \in [1..n -> {1, 2}] :
         disk = StorageStream_init(Storages(start, len))
    /\ call = [op |-> "open"]
    /\ ret = [error |-> "", data |-> <<>>]

\* AlignedStream hands _read sector-aligned requests that start inside the
\* stream; the last one may run past its end. _read seeks before it reads and
\* keeps nothing from one request to the next: a request on the stream as
\* opened stands for one at any time.
StorageRead ==
    /\ call.op = "open"
    /\ \E s \in 0..((disk.size \div SECTOR_SIZE) - 1) :
       \E n \in 1..((disk.size \div SECTOR_SIZE) - s + 1) :
         /\ call' = [op |-> "_read", offset |-> s * SECTOR_SIZE, length |-> n * SECTOR_SIZE]
         /\ ret' = StorageStream_read(disk, s * SECTOR_SIZE, n * SECTOR_SIZE)
    /\ UNCHANGED disk

SpecStorage == InitStorage /\ [][StorageRead]_vars

\* the storages whose range holds sector s
StoragesOf(st, s) ==
    {i \in 1..Len(st.streams) : st.streams[i].start <= s /\ s < st.streams[i].end}

\* no sector is in the range of two storages
StoragesDisjoint(st) == \A s \in 0..(st.size \div SECTOR_SIZE) : Cardinality(StoragesOf(st, s)) <= 1

\* the cell of sector s in storage i: sector s - start of the storage's stream
StitchedSector(st, i, s) ==
    <<st.streams[i].stream, (s - st.streams[i].start) * SECTOR_SIZE>>

\* the sectors of a request, cut at the end of the stream
RequestedSectors ==
    LET first == call.offset \div SECTOR_SIZE
    IN first..(first + (Min(call.length, disk.size - call.offset) \div SECTOR_SIZE) - 1)

----------------------------------------------------------------------------
(* VHDX: disk/vhdx.py *)

PAYLOAD_BLOCK_NOT_PRESENT == 0
PAYLOAD_BLOCK_UNDEFINED == 1
PAYLOAD_BLOCK_ZERO == 2
PAYLOAD_BLOCK_UNMAPPED == 3
PAYLOAD_BLOCK_FULLY_PRESENT == 6
PAYLOAD_BLOCK_PARTIALLY_PRESENT == 7
MB == 1048576

\* (byte & (1 << i)) >> i
Bit(byte, i) == (byte \div (2 ^ i)) % 2

\* the for loop over the bits of one byte in _iter_partial_runs; st holds the
\* locals current_type, current_count, length and the runs yielded so far
RECURSIVE PartialRunsBits(_, _, _, _)
PartialRunsBits(byte, bit_idx, stop, st) ==
    IF bit_idx >= stop THEN st
    ELSE LET sector_type == Bit(byte, bit_idx)
         IN PartialRunsBits(byte, bit_idx + 1, stop,
              IF sector_type = st.current_type
                THEN [st EXCEPT !.current_count = @ + 1, !.length = @ - 1]
                ELSE [st EXCEPT !.out = Append(@, <<st.current_type, st.current_count>>),
                                !.current_type = sector_type,
                                !.current_count = 1,
                                !.length = @ - 1])

\* the for loop over the bytes of the bitmap in _iter_partial_runs
RECURSIVE PartialRunsBytes(_, _, _)
PartialRunsBytes(bitmap, i, st) ==
    IF i > Len(bitmap) THEN st
    ELSE LET byte == bitmap[i]
         IN IF (st.current_type = 0 /\ byte = 0) \/ (st.current_type = 1 /\ byte = 255)
              THEN LET max_count == Min(st.length, 8 - st.start_idx)
                   IN PartialRunsBytes(bitmap, i + 1,
                        [st EXCEPT !.current_count = @ + max_count,
                                   !.length = @ - max_count,
                                   !.start_idx = 0])
            ELSE PartialRunsBytes(bitmap, i + 1,
                   PartialRunsBits(byte, st.start_idx, Min(st.length, 8), st))

\* _iter_partial_runs(bitmap, start_idx, length): the list of the (type, count) it yields
iter_partial_runs(bitmap, start_idx, length) ==
    LET st == PartialRunsBytes(bitmap, 1,
                  [current_type |-> Bit(bitmap[1], start_idx), current_count |-> 0,
                   length |-> length, start_idx |-> start_idx, out |-> <<>>])
    IN IF st.current_count # 0
         THEN Append(st.out, <<st.current_type, st.current_count>>)
         ELSE st.out

\* most bytes of a bitmap handed to _iter_partial_runs
PartialMaxBytes == 2
\* the byte values the bitmaps are made of
PartialByteValues == {0, 255, 15, 240, 16, 1, 170}

\* the arguments of one call: a bitmap, a start bit and a length the bitmap covers
PartialArgs ==
    UNION {[bitmap : [1..n -> PartialByteValues], start_idx : 0..7, length : 1..(8 * n)]
           : n \in 1..PartialMaxBytes}

InitPartial ==
    /\ disk \in {a \in PartialArgs : a.start_idx + a.length <= 8 * Len(a.bitmap)}
    /\ call = [op |-> "import"]
    /\ ret = <<>>

\* list(_iter_partial_runs(bitmap, start_idx, length))
PartialRuns ==
    /\ call.op = "import"
    /\ call' = [op |-> "_iter_partial_runs", bitmap |-> disk.bitmap,
                start_idx |-> disk.start_idx, length |-> disk.length]
    /\ ret' = iter_partial_runs(disk.bitmap, disk.start_idx, disk.length)
    /\ UNCHANGED disk

SpecPartial == InitPartial /\ [][PartialRuns]_vars

\* bit k (0-based, least significant bit of byte 1 first) of a bitmap
BitmapBit(bitmap, k) == Bit(bitmap[(k \div 8) + 1], k % 8)

\* the bits that the runs spell out
RECURSIVE RunsBits(_)
RunsBits(runs) ==
    IF runs = <<>> THEN <<>>
    ELSE [i \in 1..runs[1][2] |-> runs[1][1]] \o RunsBits(Tail(runs))

\* C7: the runs of _iter_partial_runs are the run-length encoding of the bits
\* start_idx .. start_idx + length - 1 of the bitmap: positive counts, adjacent
\* runs of different value, counts adding up to length.
C7_PartialRunsAreRLE ==
    (call.op = "_iter_partial_runs") =>
        /\ \A i \in 1..Len(ret) : ret[i][2] >= 1
        /\ \A i \in 1..(Len(ret) - 1) : ret[i][1] # ret[i + 1][1]
        /\ RunsBits(ret) = [k \in 1..call.length |->
                              BitmapBit(call.bitmap, call.start_idx + k - 1)]

\* geometry of the modelled images: sectors in a payload block, payload blocks
\* of the disk
VhdxSectorsPerBlock == 4
VhdxBlocks == 2
\* file_offset_mb of the sector bitmap block
VhdxBitmapMb == 8
\* the bytes at the start of the sector bitmap block
VhdxBitmapValues == {0, 255, 15, 165}

\* BlockAllocationTable.__init__: entry_count
BAT_entry_count(pb_count, chunk_ratio, parent) ==
    LET sb_count == (pb_count + chunk_ratio - 1) \div chunk_ratio
    IN IF parent THEN sb_count * (chunk_ratio + 1)
       ELSE pb_count + ((pb_count - 1) \div chunk_ratio)

\* a payload block index that leaves no room for the sector bitmap entries
BAT_pbFlat(vhdx, block) == block

\* BlockAllocationTable.pb and .sb: the index handed to get()
BAT_pb(vhdx, block) == block + (block \div vhdx.chunk_ratio)
BAT_sb(vhdx, block) ==
    LET num_sb == block \div vhdx.chunk_ratio
    IN ((num_sb + 1) * vhdx.chunk_ratio) + num_sb

\* BlockAllocationTable.get: ValueError past entry_count, else the entry read
\* from the table in the file; vhdx.bat holds the entries the file was written
\* with, the rest of the table is zero bytes
BAT_get(vhdx, entry) ==
    IF entry + 1 > vhdx.entry_count THEN [error |-> "ValueError", state |-> 0, file_offset_mb |-> 0]
    ELSE IF entry \in DOMAIN vhdx.bat
      THEN [error |-> "", state |-> vhdx.bat[entry].state,
            file_offset_mb |-> vhdx.bat[entry].file_offset_mb]
    ELSE [error |-> "", state |-> 0, file_offset_mb |-> 0]

RECURSIVE VHDX_read_sectors(_, _, _, _)

\* the loop over the runs of a partially present block in read_sectors; a run
\* of parent sectors is self.parent.read_sectors(...), the same read_sectors on
\* the parent image
RECURSIVE VHDX_partial(_, _, _, _, _, _)
VHDX_partial(vhdx, runs, sector, sector_in_block, bat_entry, relative_sector) ==
    IF runs = <<>> THEN [ok |-> TRUE, data |-> <<>>]
    ELSE LET run_type == runs[1][1]
             run_count == runs[1][2]
             part == IF run_type = 0
                       THEN IF vhdx.parent = <<>>
                              THEN [ok |-> FALSE, data |-> "AttributeError"]
                            ELSE VHDX_read_sectors(vhdx.parent[1], sector + relative_sector,
                                                   run_count, <<>>)
                     ELSE [ok |-> TRUE,
                           data |-> Data(vhdx.file, (bat_entry.file_offset_mb * MB)
                                           + ((sector_in_block + relative_sector) * vhdx.sector_size),
                                         run_count * vhdx.sector_size, vhdx.sector_size)]
         IN IF ~part.ok THEN part
            ELSE LET rest == VHDX_partial(vhdx, Tail(runs), sector, sector_in_block, bat_entry,
                                          relative_sector + run_count)
                 IN IF ~rest.ok THEN rest
                    ELSE [ok |-> TRUE, data |-> part.data \o rest.data]

\* VHDX.read_sectors: the while loop, sectors_read being the bytes appended so
\* far; the sectors of a block that is not present come from
\* self.parent.read_sectors(sector, read_count), read_sectors on the parent image
VHDX_read_sectors(vhdx, sector, count, sectors_read) ==
    IF ~(count > 0) THEN [ok |-> TRUE, data |-> sectors_read]
    ELSE
      LET read_count == Min(count, vhdx.sectors_per_block)
          read_size == read_count * vhdx.sector_size
          block == sector \div vhdx.sectors_per_block
          sector_in_block == sector % vhdx.sectors_per_block
          bat_entry == BAT_get(vhdx, BAT_pb(vhdx, block))
      IN IF bat_entry.error # ""
           THEN [ok |-> FALSE, data |-> bat_entry.error]
         ELSE
           LET next(bytes) == VHDX_read_sectors(vhdx, sector + read_count, count - read_count,
                                                sectors_read \o bytes)
           IN CASE bat_entry.state = PAYLOAD_BLOCK_NOT_PRESENT ->
                     IF vhdx.parent # <<>>
                       THEN LET p == VHDX_read_sectors(vhdx.parent[1], sector, read_count, <<>>)
                            IN IF ~p.ok THEN p ELSE next(p.data)
                       ELSE next(Zeros(read_size, vhdx.sector_size))
                [] bat_entry.state \in {PAYLOAD_BLOCK_UNDEFINED, PAYLOAD_BLOCK_UNMAPPED} ->
                     next(Zeros(read_size, vhdx.sector_size))
                [] bat_entry.state = PAYLOAD_BLOCK_FULLY_PRESENT ->
                     next(Data(vhdx.file, (bat_entry.file_offset_mb * MB)
                                     + (sector_in_block * vhdx.sector_size),
                               read_size, vhdx.sector_size))
                [] bat_entry.state = PAYLOAD_BLOCK_PARTIALLY_PRESENT ->
                     IF BAT_get(vhdx, BAT_sb(vhdx, block)).error # ""
                       THEN [ok |-> FALSE, data |-> "ValueError"]
                     ELSE
                       LET block_in_chunk == block % vhdx.chunk_ratio
                           sector_in_chunk == (block_in_chunk * vhdx.sectors_per_block)
                                              + sector_in_block
                           byte_idx == sector_in_chunk \div 8
                           bit_idx == sector_in_chunk % 8
                           sector_bitmap == Slice(vhdx.sector_bitmap, byte_idx + 1,
                                                  byte_idx + ((read_count + 8 - 1) \div 8))
                           runs == VHDX_partial(vhdx,
                                     iter_partial_runs(sector_bitmap, bit_idx, read_count),
                                     sector, sector_in_block, bat_entry, 0)
                       IN IF ~runs.ok THEN runs ELSE next(runs.data)
                [] OTHER -> next(<<>>)

\* the payload block entries of the images: every state, block i stored at (i + 1) MiB
VhdxPayloadEntries ==
    [1..VhdxBlocks -> {PAYLOAD_BLOCK_NOT_PRESENT, PAYLOAD_BLOCK_UNDEFINED, PAYLOAD_BLOCK_ZERO,
                       PAYLOAD_BLOCK_UNMAPPED, PAYLOAD_BLOCK_FULLY_PRESENT,
                       PAYLOAD_BLOCK_PARTIALLY_PRESENT}]

\* VHDX.__init__ and BlockAllocationTable.__init__ on a file with these
\* metadata items: the sizes kept, and the table as the file holds it, the
\* entry of payload block b (b = 1 is the first) stored at b MiB and one
\* sector bitmap entry after the payload entries of every chunk of an image
\* with a parent; bitmap is the bytes at the start of the sector bitmap block;
\* file names the image's own file, and parent is <<>> (None) or holds the
\* image open_parent opened. (2**23 * sector_size) // block_size is taken in
\* two parts, quotient and remainder of 2**23 by block_size, which is the same
\* number and stays inside the integers of the checker.
VHDX_init(file, block_size, sector_size, size, states, parent, bitmap) ==
    LET sectors_per_block == block_size \div sector_size
        chunk_ratio == (((2^23) \div block_size) * sector_size)
                       + ((((2^23) % block_size) * sector_size) \div block_size)
        pb_count == (size + block_size - 1) \div block_size
        sb_count == (pb_count + chunk_ratio - 1) \div chunk_ratio
        entry_count == BAT_entry_count(pb_count, chunk_ratio, parent # <<>>)
        payload == {b + (b \div chunk_ratio) : b \in 0..(pb_count - 1)}
        bitmaps == IF parent # <<>> THEN {((c + 1) * chunk_ratio) + c : c \in 0..(sb_count - 1)} ELSE {}
    IN [file |-> file,
        bat |-> [e \in payload \cup bitmaps |->
                   IF e \in bitmaps
                     THEN [state |-> PAYLOAD_BLOCK_FULLY_PRESENT, file_offset_mb |-> VhdxBitmapMb]
                     ELSE LET b == (e - (e \div (chunk_ratio + 1))) + 1
                          IN [state |-> states[b], file_offset_mb |-> b]],
        pb_count |-> pb_count,
        entry_count |-> entry_count,
        parent |-> parent,
        sector_bitmap |-> bitmap,
        size |-> size,
        block_size |-> block_size,
        sector_size |-> sector_size,
        sectors_per_block |-> sectors_per_block,
        chunk_ratio |-> chunk_ratio]

\* the image open_parent opens: VHDX(path) on the parent's file, an image of
\* the same sizes that has no parent of its own
VhdxParentImage(states) ==
    VHDX_init("parent", VhdxSectorsPerBlock * SECTOR_SIZE, SECTOR_SIZE,
              VhdxBlocks * VhdxSectorsPerBlock * SECTOR_SIZE, states, <<>>, <<0>>)

\* images of VhdxBlocks payload blocks of VhdxSectorsPerBlock sectors, alone or
\* on a parent image; a block of the parent is one it does not hold, one it
\* holds, or one whose state sends the parent to a sector bitmap it does not have
InitVHDX ==
    /\ \E states \in VhdxPayloadEntries, bitmap \in VhdxBitmapValues,
          parent \in {<<>>} \cup
                     {<<VhdxParentImage(p)>> :
                        p \in [1..VhdxBlocks -> {PAYLOAD_BLOCK_NOT_PRESENT,
                                                 PAYLOAD_BLOCK_FULLY_PRESENT,
                                                 PAYLOAD_BLOCK_PARTIALLY_PRESENT}]} :
         /\ parent = <<>> => bitmap = 0
         /\ disk = VHDX_init("fh", VhdxSectorsPerBlock * SECTOR_SIZE, SECTOR_SIZE,
                             VhdxBlocks * VhdxSectorsPerBlock * SECTOR_SIZE,
                             states, parent,
                             [i \in 1..(((VhdxBlocks * VhdxSectorsPerBlock) \div 8) + 1) |->
                                IF i = 1 THEN bitmap ELSE 0])
    /\ call = [op |-> "open"]
    /\ ret = <<>>

\* read_sectors(sector, count) on sectors of the disk
VHDXReadSectors ==
    /\ \E sector \in 0..(VhdxBlocks * VhdxSectorsPerBlock - 1) :
       \E count \in 1..(VhdxBlocks * VhdxSectorsPerBlock - sector) :
         /\ call' = [op |-> "read_sectors", sector |-> sector, count |-> count]
         /\ ret' = VHDX_read_sectors(disk, sector, count, <<>>)
    /\ UNCHANGED disk

SpecVHDX == InitVHDX /\ [][VHDXReadSectors]_vars

\* the BAT entry of the payload block that contains a sector
VhdxEntryOf(vhdx, sector) == BAT_get(vhdx, BAT_pb(vhdx, sector \div vhdx.sectors_per_block))

\* the bytes of one sector as its own payload block's BAT entry gives them, for
\* the states NOT_PRESENT and FULLY_PRESENT
RECURSIVE VhdxSectorByOwnEntry(_, _)
VhdxSectorByOwnEntry(vhdx, sector) ==
    LET e == VhdxEntryOf(vhdx, sector)
    IN IF e.state = PAYLOAD_BLOCK_FULLY_PRESENT
         THEN <<vhdx.file, (e.file_offset_mb * MB)
                           + ((sector % vhdx.sectors_per_block) * vhdx.sector_size)>>
       ELSE IF vhdx.parent # <<>> THEN VhdxSectorByOwnEntry(vhdx.parent[1], sector)
       ELSE ZERO

\* a sector whose payload block is NOT_PRESENT or FULLY_PRESENT in the image,
\* and in the parent image where the sector is read from the parent
RECURSIVE VhdxPlainSector(_, _)
VhdxPlainSector(vhdx, sector) ==
    LET e == VhdxEntryOf(vhdx, sector)
    IN \/ e.state = PAYLOAD_BLOCK_FULLY_PRESENT
       \/ /\ e.state = PAYLOAD_BLOCK_NOT_PRESENT
          /\ vhdx.parent # <<>> => VhdxPlainSector(vhdx.parent[1], sector)

\* C5: read_sectors(sector, count) resolves every requested sector through the
\* BAT entry of the payload block that contains it and returns count sectors,
\* also when the request starts inside one block and continues into the next
\* (stated on images whose blocks are NOT_PRESENT or FULLY_PRESENT, in the
\* image and in its parent).
C5_CrossBlockRead ==
    (/\ call.op = "read_sectors"
     /\ \A s \in call.sector..(call.sector + call.count - 1) : VhdxPlainSector(disk, s))
    => /\ ret.ok
       /\ Len(ret.data) = call.count
       /\ \A k \in 1..call.count :
            ret.data[k] = VhdxSectorByOwnEntry(disk, call.sector + k - 1)

\* C6: a read of sectors of a payload block whose BAT state is UNDEFINED,
\* UNMAPPED or ZERO returns zeros, whatever else the entry holds (stated on
\* reads that stay inside one block).
C6_ZeroStates ==
    (/\ call.op = "read_sectors"
     /\ (call.sector % disk.sectors_per_block) + call.count <= disk.sectors_per_block
     /\ VhdxEntryOf(disk, call.sector).state
          \in {PAYLOAD_BLOCK_UNDEFINED, PAYLOAD_BLOCK_UNMAPPED, PAYLOAD_BLOCK_ZERO})
    => /\ ret.ok
       /\ ret.data = Zeros(call.count * disk.sector_size, disk.sector_size)

----------------------------------------------------------------------------
(* VMDK: disk/vmdk.py *)

\* sectors of a raw extent file, sectors of a grain, capacity of a sparse
\* extent in sectors, grain table entries per grain table
VmdkRawSectors == 2
VmdkGrainSectors == 2
VmdkCapacity == 3
VmdkGtesPerGt == 1
\* sector of the first grain table and of the stored grain in an extent file
VmdkGtSector == 4
VmdkGrainSector == 8
\* the extent files of the largest image
ExtentFile == <<"extent1", "extent2">>

\* RawExtent.__init__ as VMDK.__init__ calls it: no size or offset hint
RawExtent(file) ==
    [kind |-> "raw", file |-> file, size |-> VmdkRawSectors * SECTOR_SIZE, offset |-> 0,
     grain_size |-> 0, last_grain_index |-> 0, last_grain_size |-> 0,
     num_gte_per_gt |-> 0, gd |-> <<>>, gt |-> <<>>]

\* HostedSparseExtent.__init__ and SparseExtent.__init__ on a header of
\* capacity VmdkCapacity and grainSize VmdkGrainSectors; gd is the grain
\* directory and gt[t] the table stored at sector gd[t]
HostedSparseExtent(file, gd, gt) ==
    [kind |-> "sparse", file |-> file, size |-> VmdkCapacity * SECTOR_SIZE, offset |-> 0,
     grain_size |-> VmdkGrainSectors * SECTOR_SIZE,
     last_grain_index |-> (VmdkCapacity * SECTOR_SIZE) \div (VmdkGrainSectors * SECTOR_SIZE),
     last_grain_size |-> (VmdkCapacity * SECTOR_SIZE) % (VmdkGrainSectors * SECTOR_SIZE),
     num_gte_per_gt |-> VmdkGtesPerGt, gd |-> gd, gt |-> gt]

\* SparseExtent._grain with HostedSparseExtent._gt
SparseExtent_grain(extent, idx) ==
    LET table == idx \div extent.num_gte_per_gt
        entry == idx % extent.num_gte_per_gt
    IN IF extent.gd[table + 1] = 0 THEN 0 ELSE extent.gt[table + 1][entry + 1]

\* SparseExtent._read_grain of an uncompressed extent
SparseExtent_read_grain(extent, grain) ==
    Data(extent.file, grain * SECTOR_SIZE, extent.grain_size, SECTOR_SIZE)

\* an extent offset that takes every extent to start at 0
VmdkExtentOffsetZero(offsets, idx) == 0

\* ExtentStream._read: extent_offset
VmdkExtentOffset(offsets, idx) == IF idx = 0 THEN 0 ELSE offsets[idx]

\* ExtentStream._read: the while loop
RECURSIVE ExtentStream_read(_, _, _, _)
ExtentStream_read(vmdk, offset, length, result) ==
    IF ~(length > 0) THEN result
    ELSE
      LET idx == bisect_right(vmdk.offsets, offset)
      IN IF idx > Len(vmdk.offsets) - 1 THEN result
         ELSE
           LET extent == vmdk.extents[idx + 1]
               extent_offset == VmdkExtentOffset(vmdk.offsets, idx)
               offset_in_extent == offset - extent_offset
               read_size == Min(length, extent.size - offset_in_extent)
           IN IF extent.kind = "raw"
                THEN ExtentStream_read(vmdk, offset + read_size, length - read_size,
                         result \o Data(extent.file, extent.offset + offset_in_extent,
                                        read_size, SECTOR_SIZE))
              ELSE
                LET grain_idx == offset_in_extent \div extent.grain_size
                    offset_in_grain == offset_in_extent % extent.grain_size
                    grain_size == IF grain_idx = extent.last_grain_index
                                    THEN extent.last_grain_size ELSE extent.grain_size
                    read_size2 == Min(read_size, grain_size - offset_in_grain)
                    grain == SparseExtent_grain(extent, grain_idx)
                    buf == IF grain = 0
                             THEN IF vmdk.parent
                                    THEN Data("parent", offset, read_size2, SECTOR_SIZE)
                                    ELSE Zeros(read_size2, SECTOR_SIZE)
                           ELSE IF grain = 1 THEN Zeros(read_size2, SECTOR_SIZE)
                           ELSE Slice(SparseExtent_read_grain(extent, grain),
                                      (offset_in_grain \div SECTOR_SIZE) + 1,
                                      (offset_in_grain + read_size2) \div SECTOR_SIZE)
                IN IF offset_in_grain >= grain_size THEN result
                   ELSE ExtentStream_read(vmdk, offset + read_size2, length - read_size2,
                                          result \o buf)

\* running sum of the extent sizes
RECURSIVE VmdkOffsets(_, _)
VmdkOffsets(extents, n) ==
    IF n = 0 THEN <<>> ELSE LET prev == VmdkOffsets(extents, n - 1)
                            IN Append(prev, (IF n = 1 THEN 0 ELSE prev[n - 1]) + extents[n].size)

\* VMDK.__init__: the extents, the lookup table of extent offsets, the size
VMDK_init(extents, parent) ==
    [extents |-> extents, offsets |-> VmdkOffsets(extents, Len(extents)),
     size |-> VmdkOffsets(extents, Len(extents))[Len(extents)], parent |-> parent]

\* the extents an extent file can hold: a raw file, or a sparse extent whose
\* grain tables hold 0, 1 or the sector of a stored grain
VmdkExtents(file) ==
    LET num_gte == (VmdkCapacity + VmdkGrainSectors - 1) \div VmdkGrainSectors
        num_gt == (num_gte + VmdkGtesPerGt - 1) \div VmdkGtesPerGt
    IN {RawExtent(file)} \cup
       {HostedSparseExtent(file, gd, gt) :
          gd \in {g \in [1..num_gt -> 0..(VmdkGtSector + num_gt)] :
                    \A t \in 1..num_gt : g[t] \in {0, VmdkGtSector + t - 1}},
          gt \in [1..num_gt -> [1..VmdkGtesPerGt -> {0, 1, VmdkGrainSector}]]}

InitVMDK ==
    /\ \E n \in 1..Len(ExtentFile), parent \in BOOLEAN :
       \E extents \in [1..n -> UNION {VmdkExtents(ExtentFile[i]) : i \in 1..Len(ExtentFile)}] :
         /\ \A i \in 1..n : extents[i].file = ExtentFile[i]
         /\ \A i \in 1..n : \A t \in 1..Len(extents[i].gd) :
              extents[i].gd[t] = 0 => \A e \in 1..VmdkGtesPerGt : extents[i].gt[t][e] = 0
         /\ disk = VMDK_init(extents, parent)
    /\ call = [op |-> "open"]
    /\ ret = <<>>

\* ExtentStream._read(offset, length) on whole sectors, starting inside the disk
VMDKRead ==
    /\ \E s \in 0..((disk.size \div SECTOR_SIZE) - 1) :
       \E c \in 1..((disk.size \div SECTOR_SIZE) - s + 1) :
         /\ call' = [op |-> "_read", offset |-> s * SECTOR_SIZE, length |-> c * SECTOR_SIZE]
         /\ ret' = ExtentStream_read(disk, s * SECTOR_SIZE, c * SECTOR_SIZE, <<>>)
    /\ UNCHANGED disk

SpecVMDK == InitVMDK /\ [][VMDKRead]_vars

\* the extent that holds a disk-wide offset, and where that extent starts
VmdkExtentAt(vmdk, off) ==
    CHOOSE i \in 1..Len(vmdk.extents) :
        (IF i = 1 THEN 0 ELSE vmdk.offsets[i - 1]) <= off /\ off < vmdk.offsets[i]
VmdkStartOf(vmdk, i) == IF i = 1 THEN 0 ELSE vmdk.offsets[i - 1]

\* the grain table entry of the grain that holds a disk-wide offset of a sparse extent
VmdkEntryAt(vmdk, off) ==
    LET extent == vmdk.extents[VmdkExtentAt(vmdk, off)]
        rel == off - VmdkStartOf(vmdk, VmdkExtentAt(vmdk, off))
        g == rel \div extent.grain_size
    IN IF extent.gd[(g \div extent.num_gte_per_gt) + 1] = 0 THEN 0
       ELSE extent.gt[(g \div extent.num_gte_per_gt) + 1][(g % extent.num_gte_per_gt) + 1]

\* the sector at a disk-wide offset: a raw extent's bytes at the extent-relative
\* offset; in a sparse extent the parent's bytes (or zeros) for entry 0, zeros
\* for an entry in zero_entries, else the stored grain's bytes
VmdkSector(vmdk, off, zero_entries) ==
    LET i == VmdkExtentAt(vmdk, off)
        extent == vmdk.extents[i]
        rel == off - VmdkStartOf(vmdk, i)
    IN IF extent.kind = "raw" THEN <<extent.file, rel>>
       ELSE LET e == VmdkEntryAt(vmdk, off)
            IN IF e = 0 THEN (IF vmdk.parent THEN <<"parent", off>> ELSE ZERO)
               ELSE IF e \in zero_entries THEN ZERO
               ELSE <<extent.file, e * SECTOR_SIZE + (rel % extent.grain_size)>>

VmdkReadIs(zero_entries) ==
    /\ Len(ret) * SECTOR_SIZE = Min(call.length, disk.size - call.offset)
    /\ \A k \in 1..Len(ret) :
         ret[k] = VmdkSector(disk, call.offset + (k - 1) * SECTOR_SIZE, zero_entries)

\* C10 (as stated): ExtentStream._read over several extents returns each
\* extent's bytes at the extent-relative offset; in a sparse extent a grain with
\* table entry 0 reads the parent at the disk-wide offset (zeros without a
\* parent) and any other grain reads this extent's stored grain; the length is
\* min(length, size - offset).
C10_AnyOtherGrainStored == (call.op = "_read") => VmdkReadIs({})

\* C10 (amended): as above, but a grain with table entry 1 reads as zeros; only
\* entries above 1 read this extent's stored grain.
C10_MultiExtentRead == (call.op = "_read") => VmdkReadIs({1})

\* a read that starts in the first extent and ends in the second, over a grain
\* with entry 1, a grain with entry 0 and a stored grain or raw bytes
C10_Witness ==
    /\ call.op = "_read"
    /\ Len(disk.extents) = 2
    /\ call.offset < disk.offsets[1]
    /\ call.offset + call.length = disk.size
    /\ Len(ret) * SECTOR_SIZE = call.length
    /\ disk.parent
    /\ \E k \in 1..Len(ret) : ret[k] = ZERO
    /\ \E k \in 1..Len(ret) : ret[k][1] = "parent"
    /\ \E k \in 1..Len(ret) : ret[k][1] = "extent2"

----------------------------------------------------------------------------
(* QCOW2: disk/qcow2.py, disk/c_qcow2.py *)
(* A 64-bit word (L1 entry, L2 entry, L2 bitmap) is the set of the positions *)
(* of its set bits, bit 0 being the least significant.                       *)

MIN_CLUSTER_BITS == 9
QCOW_EXTL2_SUBCLUSTERS_PER_CLUSTER == 32
L1E_OFFSET_MASK == 9..55
L2E_OFFSET_MASK == 9..55
L2E_COMPRESSED_OFFSET_SIZE_MASK == 0..61
QCOW_OFLAG_COPIED == {63}
QCOW_OFLAG_COMPRESSED == {62}
QCOW_OFLAG_ZERO == {0}

NORMAL_SUBCLUSTER_TYPES ==
    {"QCOW2_SUBCLUSTER_NORMAL", "QCOW2_SUBCLUSTER_ZERO_ALLOC",
     "QCOW2_SUBCLUSTER_UNALLOCATED_ALLOC"}
ZERO_SUBCLUSTER_TYPES == {"QCOW2_SUBCLUSTER_ZERO_PLAIN", "QCOW2_SUBCLUSTER_ZERO_ALLOC"}
UNALLOCATED_SUBCLUSTER_TYPES ==
    {"QCOW2_SUBCLUSTER_UNALLOCATED_PLAIN", "QCOW2_SUBCLUSTER_UNALLOCATED_ALLOC"}

\* the number a word stands for, and the word of a number below 2^31
RECURSIVE WordValue(_)
WordValue(w) == IF w = {} THEN 0
                ELSE LET b == CHOOSE x \in w : TRUE IN (2 ^ b) + WordValue(w \ {b})
WordOf(n) == {b \in 0..30 : (n \div (2 ^ b)) % 2 = 1}
\* value >> n
Shr(w, n) == {b - n : b \in {x \in w : x >= n}}

\* ctz(value, size=32): None when none of the low bits is set
ctz(value, size) ==
    IF value \cap (0..(size - 1)) = {} THEN None
    ELSE CHOOSE i \in value \cap (0..(size - 1)) : \A j \in value \cap (0..(size - 1)) : i <= j

get_cluster_type(qcow2, l2_entry) ==
    IF l2_entry \cap QCOW_OFLAG_COMPRESSED # {} THEN "QCOW2_CLUSTER_COMPRESSED"
    ELSE IF l2_entry \cap QCOW_OFLAG_ZERO # {} /\ ~qcow2.has_subclusters
      THEN IF l2_entry \cap L2E_OFFSET_MASK # {} THEN "QCOW2_CLUSTER_ZERO_ALLOC"
           ELSE "QCOW2_CLUSTER_ZERO_PLAIN"
    ELSE IF l2_entry \cap L2E_OFFSET_MASK = {}
      THEN IF qcow2.has_data_file /\ l2_entry \cap QCOW_OFLAG_COPIED # {}
             THEN "QCOW2_CLUSTER_NORMAL"
           ELSE "QCOW2_CLUSTER_UNALLOCATED"
    ELSE "QCOW2_CLUSTER_NORMAL"

\* the subcluster type, or "Error" where the function raises Error
get_subcluster_type(qcow2, l2_entry, l2_bitmap, sc_index) ==
    LET c_type == get_cluster_type(qcow2, l2_entry)
        sc_alloc_mask == {sc_index}
        sc_zero_mask == {sc_index + 32}
    IN IF qcow2.has_subclusters
         THEN CASE c_type = "QCOW2_CLUSTER_COMPRESSED" -> "QCOW2_SUBCLUSTER_COMPRESSED"
                [] c_type = "QCOW2_CLUSTER_NORMAL" ->
                     IF Shr(l2_bitmap, 32) \cap l2_bitmap # {} THEN "QCOW2_SUBCLUSTER_INVALID"
                     ELSE IF l2_bitmap \cap sc_zero_mask # {} THEN "QCOW2_SUBCLUSTER_ZERO_ALLOC"
                     ELSE IF l2_bitmap \cap sc_alloc_mask # {} THEN "QCOW2_SUBCLUSTER_NORMAL"
                     ELSE "QCOW2_SUBCLUSTER_UNALLOCATED_ALLOC"
                [] c_type = "QCOW2_CLUSTER_UNALLOCATED" ->
                     IF l2_bitmap \cap (0..31) # {} THEN "QCOW2_SUBCLUSTER_INVALID"
                     ELSE IF l2_bitmap \cap sc_zero_mask # {} THEN "QCOW2_SUBCLUSTER_ZERO_PLAIN"
                     ELSE "QCOW2_SUBCLUSTER_UNALLOCATED_PLAIN"
                [] OTHER -> "Error"
       ELSE CASE c_type = "QCOW2_CLUSTER_COMPRESSED" -> "QCOW2_SUBCLUSTER_COMPRESSED"
              [] c_type = "QCOW2_CLUSTER_ZERO_PLAIN" -> "QCOW2_SUBCLUSTER_ZERO_PLAIN"
              [] c_type = "QCOW2_CLUSTER_ZERO_ALLOC" -> "QCOW2_SUBCLUSTER_ZERO_ALLOC"
              [] c_type = "QCOW2_CLUSTER_NORMAL" -> "QCOW2_SUBCLUSTER_NORMAL"
              [] c_type = "QCOW2_CLUSTER_UNALLOCATED" -> "QCOW2_SUBCLUSTER_UNALLOCATED_PLAIN"
              [] OTHER -> "Error"

\* what `return sc_type, ctz(val) - sc_from` gives: a TypeError when ctz is None
RangeOf(sc_type, val, sc_from) ==
    IF ctz(val, 32) = None
      THEN [error |-> "TypeError", sc_type |-> sc_type, sc_count |-> 0]
      ELSE [error |-> "", sc_type |-> sc_type, sc_count |-> ctz(val, 32) - sc_from]

\* get_subcluster_range_type: (sc_type, sc_count), or the exception it raises
get_subcluster_range_type(qcow2, l2_entry, l2_bitmap, sc_from) ==
    LET sc_type == get_subcluster_type(qcow2, l2_entry, l2_bitmap, sc_from)
        sc_mask == 0..(sc_from - 1)
        inv_mask == (0..63) \ sc_mask
    IN IF sc_type = "Error" THEN [error |-> "Error", sc_type |-> sc_type, sc_count |-> 0]
       ELSE IF ~qcow2.has_subclusters \/ sc_type = "QCOW2_SUBCLUSTER_COMPRESSED"
         THEN [error |-> "", sc_type |-> sc_type,
               sc_count |-> qcow2.subclusters_per_cluster - sc_from]
       ELSE IF sc_type = "QCOW2_SUBCLUSTER_NORMAL"
         THEN RangeOf(sc_type, l2_bitmap \cup sc_mask, sc_from)
       ELSE IF sc_type \in ZERO_SUBCLUSTER_TYPES
         THEN RangeOf(sc_type, Shr(l2_bitmap \cup sc_mask, 32), sc_from)
       ELSE IF sc_type \in UNALLOCATED_SUBCLUSTER_TYPES
         THEN RangeOf(sc_type, (Shr(l2_bitmap, 32) \cup l2_bitmap) \cap inv_mask, sc_from)
       ELSE [error |-> "Error", sc_type |-> sc_type, sc_count |-> 0]

\* the subcluster indexes at which the runs of the modelled bitmaps start and end
SubclusterEdges == {0, 1, 2, 16, 31, 32}

\* bitmaps whose allocation bits and whose zero bits each form one range
SubclusterBitmaps ==
    {(a1..(a2 - 1)) \cup {32 + z : z \in z1..(z2 - 1)} :
       a1 \in SubclusterEdges, a2 \in SubclusterEdges, z1 \in SubclusterEdges, z2 \in SubclusterEdges}

\* L2 entries: unallocated, a host cluster with and without the copied flag,
\* a compressed cluster
SubclusterEntries == {{}, {16}, {16, 63}, {16, 62}}

InitSubcluster ==
    /\ disk \in [qcow2 : {[has_subclusters |-> TRUE, has_data_file |-> FALSE,
                           subclusters_per_cluster |-> QCOW_EXTL2_SUBCLUSTERS_PER_CLUSTER]},
                 l2_entry : SubclusterEntries,
                 l2_bitmap : SubclusterBitmaps,
                 sc_from : 0..(QCOW_EXTL2_SUBCLUSTERS_PER_CLUSTER - 1)]
    /\ call = [op |-> "import"]
    /\ ret = <<>>

\* get_subcluster_range_type(qcow2, l2_entry, l2_bitmap, sc_from) of an extended-L2 image
SubclusterRangeType ==
    /\ call.op = "import"
    /\ call' = [op |-> "get_subcluster_range_type"]
    /\ ret' = get_subcluster_range_type(disk.qcow2, disk.l2_entry, disk.l2_bitmap, disk.sc_from)
    /\ UNCHANGED disk

SpecSubcluster == InitSubcluster /\ [][SubclusterRangeType]_vars

\* the number of consecutive subclusters from sc_from on that have the type of sc_from
RECURSIVE SameTypeCount(_, _, _, _)
SameTypeCount(qcow2, l2_entry, l2_bitmap, sc) ==
    IF sc + 1 < qcow2.subclusters_per_cluster
       /\ get_subcluster_type(qcow2, l2_entry, l2_bitmap, sc + 1)
            = get_subcluster_type(qcow2, l2_entry, l2_bitmap, sc)
      THEN 1 + SameTypeCount(qcow2, l2_entry, l2_bitmap, sc + 1)
      ELSE 1

\* C2: on an extended-L2 image get_subcluster_range_type returns (T, n), T the
\* subcluster type at sc_from and n the number of consecutive subclusters from
\* sc_from on that have type T, so 1 <= n <= 32 - sc_from (stated for bitmaps
\* that are not invalid).
C2_SubclusterRange ==
    (/\ call.op = "get_subcluster_range_type"
     /\ get_subcluster_type(disk.qcow2, disk.l2_entry, disk.l2_bitmap, disk.sc_from)
          # "QCOW2_SUBCLUSTER_INVALID")
    => /\ ret.error = ""
       /\ ret.sc_type = get_subcluster_type(disk.qcow2, disk.l2_entry, disk.l2_bitmap, disk.sc_from)
       /\ ret.sc_count = SameTypeCount(disk.qcow2, disk.l2_entry, disk.l2_bitmap, disk.sc_from)
       /\ 1 <= ret.sc_count
       /\ ret.sc_count <= QCOW_EXTL2_SUBCLUSTERS_PER_CLUSTER - disk.sc_from

\* cluster_bits of the modelled images (the smallest an extended-L2 image can
\* have), layers of the longest backing chain, host cluster of the L2 table
QcowClusterBits == 14
QcowMaxChain == 3
QcowL2Cluster == 1

QcowFile == <<"qcow1", "qcow2", "qcow3", "qcow4">>
\* the decompressed clusters of the image files
QcowDecompressed == <<"qcow1z", "qcow2z", "qcow3z", "qcow4z">>

\* QCow2.__init__: the geometry of an image, its L1 table and its L2 tables
\* (l2[offset] is the uint64 words of the table stored at that offset)
QCow2_init(has_subclusters, size, l1_table, l2) ==
    LET cluster_bits == QcowClusterBits
        cluster_size == 2 ^ cluster_bits
        subclusters_per_cluster ==
            IF has_subclusters THEN QCOW_EXTL2_SUBCLUSTERS_PER_CLUSTER ELSE 1
        subcluster_size == cluster_size \div subclusters_per_cluster
        l2_entry_size == IF has_subclusters THEN 16 ELSE 8
        l2_bits == cluster_bits - ctz(WordOf(l2_entry_size), 32)
    IN [size |-> size, cluster_bits |-> cluster_bits, cluster_size |-> cluster_size,
        has_subclusters |-> has_subclusters, has_data_file |-> FALSE,
        subclusters_per_cluster |-> subclusters_per_cluster,
        subcluster_size |-> subcluster_size,
        subcluster_bits |-> ctz(WordOf(subcluster_size), 32),
        l2_entry_size |-> l2_entry_size, l2_bits |-> l2_bits, l2_size |-> 2 ^ l2_bits,
        csize_shift |-> 62 - (cluster_bits - 8),
        l1_size |-> Len(l1_table), l1_table |-> l1_table, l2 |-> l2]

\* L2Table.entry and L2Table.bitmap; the words past the modelled ones are zero
L2Table_word(table, i) == IF i + 1 <= Len(table) THEN table[i + 1] ELSE {}
L2Table_entry(qcow2, table, idx) == L2Table_word(table, (idx * qcow2.l2_entry_size) \div 8)
L2Table_bitmap(qcow2, table, idx) ==
    IF qcow2.has_subclusters
      THEN L2Table_word(table, ((idx * qcow2.l2_entry_size) \div 8) + 1)
      ELSE {}

\* F applied to the value of e, e being evaluated once
Strict(e, F(_)) == CHOOSE y \in {F(x) : x \in {e}} : TRUE

\* count_contiguous_subclusters: the for loop; st holds count, expected_type,
\* expected_offset and check_offset
RECURSIVE CountSubclustersLoop(_, _, _, _, _, _, _)
CountSubclustersLoop(qcow2, nb_clusters, sc_index, l2_table, l2_index, i, st) ==
    IF i >= nb_clusters THEN [error |-> "", count |-> st.count]
    ELSE
      LET first_sc == IF i = 0 THEN sc_index ELSE 0
          l2_entry == L2Table_entry(qcow2, l2_table, l2_index + i)
          l2_bitmap == L2Table_entry(qcow2, l2_table, l2_index + i)
          offset_of_entry == WordValue(l2_entry \cap L2E_OFFSET_MASK)
          body(r) ==
            LET st1 == IF i = 0
                         THEN [st EXCEPT !.expected_type = r.sc_type,
                                         !.expected_offset = offset_of_entry,
                                         !.check_offset = r.sc_type \in NORMAL_SUBCLUSTER_TYPES]
                       ELSE IF st.check_offset
                         THEN [st EXCEPT !.expected_offset = @ + qcow2.cluster_size]
                       ELSE st
            IN IF r.error # "" THEN [error |-> r.error, count |-> 0]
               ELSE IF i = 0 /\ r.sc_type = "QCOW2_SUBCLUSTER_COMPRESSED"
                 THEN [error |-> "", count |-> r.sc_count]
               ELSE IF i # 0 /\ r.sc_type # st.expected_type
                 THEN [error |-> "", count |-> st.count]
               ELSE IF i # 0 /\ st.check_offset /\ st1.expected_offset # offset_of_entry
                 THEN [error |-> "", count |-> st.count]
               ELSE IF first_sc + r.sc_count < qcow2.subclusters_per_cluster
                 THEN [error |-> "", count |-> st.count + r.sc_count]
               ELSE Strict([st1 EXCEPT !.count = @ + r.sc_count],
                      LAMBDA st2 : CountSubclustersLoop(qcow2, nb_clusters, sc_index, l2_table,
                                                        l2_index, i + 1, st2))
      IN Strict(get_subcluster_range_type(qcow2, l2_entry, l2_bitmap, first_sc),
                LAMBDA r : body(r))

count_contiguous_subclusters(qcow2, nb_clusters, sc_index, l2_table, l2_index) ==
    CountSubclustersLoop(qcow2, nb_clusters, sc_index, l2_table, l2_index, 0,
        [count |-> 0, expected_type |-> "", expected_offset |-> 0, check_offset |-> FALSE])

\* QCow2Stream._yield_runs: the runs (sc_type, offset, host_offset, read_count)
\* yielded up to the end of the request or up to the exception raised. A run
\* whose read_count is below 1 ends the list with "NoProgress": the generator
\* goes on from there without having come closer to the end of the request.
RECURSIVE QCow2Stream_yield_runs(_, _, _, _)
QCow2Stream_yield_runs(qcow2, offset, length, runs) ==
    IF ~(length > 0) THEN [error |-> "", runs |-> runs]
    ELSE
      LET l1_index == offset \div (2 ^ (qcow2.l2_bits + qcow2.cluster_bits))
          l2_index == (offset \div qcow2.cluster_size) % qcow2.l2_size
          sc_index == (offset \div (2 ^ qcow2.subcluster_bits)) % qcow2.subclusters_per_cluster
          offset_in_cluster == offset % qcow2.cluster_size
          bytes_needed == Min(length + offset_in_cluster,
                              (qcow2.l2_size - l2_index) * qcow2.cluster_size)
          unallocated == <<"QCOW2_SUBCLUSTER_UNALLOCATED_PLAIN", offset, 0,
                           bytes_needed - offset_in_cluster>>
          next(run) ==
              IF run[4] < 1 THEN [error |-> "NoProgress", runs |-> Append(runs, run)]
              ELSE Strict(<<offset + run[4], length - run[4], Append(runs, run)>>,
                          LAMBDA a : QCow2Stream_yield_runs(qcow2, a[1], a[2], a[3]))
          step(e) == Strict(e, LAMBDA run : next(run))
          allocated(l2_table) ==
              LET l2_entry == L2Table_entry(qcow2, l2_table, l2_index)
                  l2_bitmap == L2Table_bitmap(qcow2, l2_table, l2_index)
                  sc_type == get_subcluster_type(qcow2, l2_entry, l2_bitmap, sc_index)
                  host_offset ==
                      IF sc_type = "QCOW2_SUBCLUSTER_COMPRESSED"
                        THEN WordValue(l2_entry \cap L2E_COMPRESSED_OFFSET_SIZE_MASK)
                      ELSE IF sc_type \in NORMAL_SUBCLUSTER_TYPES
                        THEN WordValue(l2_entry \cap L2E_OFFSET_MASK) + offset_in_cluster
                      ELSE 0
                  nb_clusters == (bytes_needed + (qcow2.cluster_size - 1))
                                     \div qcow2.cluster_size
                  counted(sc) ==
                      LET bytes_available ==
                              (sc.count + sc_index) * (2 ^ qcow2.subcluster_bits)
                      IN IF sc.error # "" THEN [error |-> sc.error, runs |-> runs]
                         ELSE step(<<sc_type, offset, host_offset,
                                     Min(bytes_available, bytes_needed) - offset_in_cluster>>)
              IN IF sc_type = "Error" THEN [error |-> "Error", runs |-> runs]
                 ELSE Strict(count_contiguous_subclusters(qcow2, nb_clusters, sc_index,
                                                          l2_table, l2_index),
                             LAMBDA sc : counted(sc))
      IN IF l1_index > qcow2.l1_size THEN step(unallocated)
         ELSE IF ~(l1_index < Len(qcow2.l1_table)) THEN [error |-> "IndexError", runs |-> runs]
         ELSE IF WordValue(qcow2.l1_table[l1_index + 1] \cap L1E_OFFSET_MASK) = 0
           THEN step(unallocated)
         ELSE Strict(qcow2.l2[WordValue(qcow2.l1_table[l1_index + 1] \cap L1E_OFFSET_MASK)],
                     LAMBDA l2_table : allocated(l2_table))

\* QCow2Stream._read_compressed: the bytes of the decompressed cluster stored at
\* coffset, decompressed[offset_in_cluster : offset_in_cluster + length]; a
\* negative end of the slice counts from the end of the cluster
QCow2Stream_read_compressed(qcow2, file, cluster_descriptor, offset, length) ==
    LET offset_in_cluster == offset % qcow2.cluster_size
        coffset == WordValue(WordOf(cluster_descriptor) \cap (0..(qcow2.csize_shift - 1)))
        stop == IF offset_in_cluster + length < 0
                  THEN Max(0, qcow2.cluster_size + offset_in_cluster + length)
                ELSE Min(offset_in_cluster + length, qcow2.cluster_size)
    IN Data(file, coffset + offset_in_cluster, Max(0, stop - offset_in_cluster),
            2 ^ MIN_CLUSTER_BITS)

\* layers[k] read through its stream: QCow2Stream._read, and the read of the
\* backing stream (an aligned stream over layers[k - 1]) that it makes
RECURSIVE QCow2Stream_read(_, _, _, _)
RECURSIVE QCow2Stream_runs(_, _, _, _)
RECURSIVE BackingRead(_, _, _, _)

\* backing_file.seek(pos); backing_file.read(n): the aligned stream refuses a
\* negative n other than -1 with ValueError, clamps the read to the size and
\* calls _read for the block of a misaligned head, for the whole blocks, and
\* for the block of the tail
BackingRead(layers, k, pos, n0) ==
    LET qcow2 == layers[k]
        unit == 2 ^ MIN_CLUSTER_BITS
        align == qcow2.cluster_size
        n == IF n0 = -1 THEN qcow2.size - pos ELSE Min(n0, qcow2.size - pos)
        head_len == IF pos % align # 0 THEN Min(n, align - (pos % align)) ELSE 0
        mid_len == ((n - head_len) \div align) * align
        tail_len == n - head_len - mid_len
        nothing == [error |-> "", data |-> <<>>]
        joined(part) ==
            IF part[1].error # "" THEN part[1]
            ELSE IF part[2].error # "" THEN part[2]
            ELSE IF part[3].error # "" THEN part[3]
            ELSE [error |-> "",
                  data |-> Slice(part[1].data, ((pos % align) \div unit) + 1,
                                 ((pos % align) + head_len) \div unit)
                           \o part[2].data
                           \o Slice(part[3].data, 1, tail_len \div unit)]
    IN IF n0 < -1 THEN [error |-> "ValueError", data |-> <<>>]
       ELSE IF n = 0 \/ qcow2.size <= pos THEN nothing
       ELSE Strict(<<IF head_len > 0
                       THEN QCow2Stream_read(layers, k, pos - (pos % align), align)
                       ELSE nothing,
                     IF mid_len > 0
                       THEN QCow2Stream_read(layers, k, pos + head_len, mid_len)
                       ELSE nothing,
                     IF tail_len > 0
                       THEN QCow2Stream_read(layers, k, pos + head_len + mid_len, align)
                       ELSE nothing>>,
                   LAMBDA part : joined(part))

\* QCow2Stream._read: the for loop over the runs. The image and data files
\* are files opened by path: read(n) of such a file raises ValueError for a
\* negative n other than -1
QCow2Stream_runs(layers, k, runs, result) ==
    IF runs = <<>> THEN [error |-> "", data |-> result]
    ELSE
      LET qcow2 == layers[k]
          unit == 2 ^ MIN_CLUSTER_BITS
          has_backing_file == k > 1
          sc_type == runs[1][1]
          read_offset == runs[1][2]
          run_offset == runs[1][3]
          run_length == runs[1][4]
          unalloc_zeroed == sc_type \in UNALLOCATED_SUBCLUSTER_TYPES /\ ~has_backing_file
          append(bytes) == Strict(<<Tail(runs), result \o bytes>>,
                                  LAMBDA a : QCow2Stream_runs(layers, k, a[1], a[2]))
      IN IF sc_type \in ZERO_SUBCLUSTER_TYPES \/ unalloc_zeroed
           THEN append(Zeros(run_length, unit))
         ELSE IF sc_type \in UNALLOCATED_SUBCLUSTER_TYPES /\ has_backing_file
           THEN Strict(BackingRead(layers, k - 1, read_offset, run_length),
                       LAMBDA backing : IF backing.error # "" THEN backing
                                        ELSE append(backing.data))
         ELSE IF sc_type = "QCOW2_SUBCLUSTER_COMPRESSED"
           THEN append(QCow2Stream_read_compressed(qcow2, QcowDecompressed[k],
                                                   run_offset, read_offset, run_length))
         ELSE IF sc_type = "QCOW2_SUBCLUSTER_NORMAL"
           THEN IF run_length < -1 THEN [error |-> "ValueError", data |-> <<>>]
                ELSE append(Data(QcowFile[k], run_offset, run_length, unit))
         ELSE append(<<>>)

\* _read consumes the runs as _yield_runs yields them, a run of no or negative
\* length included: the generator then goes on from (offset + read_count,
\* length - read_count).  When it comes back to a place where it has been, the
\* read runs without end ("NoProgress").
QCow2Stream_read(layers, k, offset, length) ==
    LET RECURSIVE From(_, _, _, _)
        From(off, len, result, seen) ==
          LET after(r, read) ==
                LET last == r.runs[Len(r.runs)]
                    off2 == last[2] + last[4]
                    len2 == len - (off2 - off)
                IN IF read.error # "" THEN read
                   ELSE IF r.error = "NoProgress"
                     THEN IF <<off2, len2>> \in seen
                            THEN [error |-> "NoProgress", data |-> <<>>]
                          ELSE From(off2, len2, read.data, seen \cup {<<off2, len2>>})
                   ELSE IF r.error # "" THEN [error |-> r.error, data |-> <<>>]
                   ELSE read
          IN Strict(QCow2Stream_yield_runs(layers[k], off, len, <<>>),
                    LAMBDA r : Strict(QCow2Stream_runs(layers, k, r.runs, result),
                                      LAMBDA read : after(r, read)))
    IN From(offset, length, <<>>, {<<offset, length>>})

\* the L2 tables (as uint64 words) of the modelled two-cluster images: plain
\* entries, and extended entries each followed by its bitmap; Normal(c) is a
\* normal cluster stored at host cluster c, Compressed(c) a compressed cluster
\* whose descriptor points at host cluster c; the last table has a cluster
\* whose bitmap sets the allocation bit and the zero bit of subcluster 0
QcowTables ==
    LET Normal(c) == WordOf(c * (2 ^ QcowClusterBits)) \cup QCOW_OFLAG_COPIED
        Compressed(c) == WordOf(c * (2 ^ QcowClusterBits)) \cup QCOW_OFLAG_COMPRESSED
    IN {[has_subclusters |-> FALSE, table |-> t] :
          t \in {<<{}, Normal(2)>>, <<Normal(2), Normal(3)>>,
                 <<Normal(3), QCOW_OFLAG_ZERO>>, <<Compressed(4), {}>>}}
       \cup
       {[has_subclusters |-> TRUE, table |-> t] :
          t \in {<<{}, {}, Normal(2), 0..31>>, <<Normal(3), 16..31, {}, {}>>,
                 <<Normal(3), {0, 32}, Compressed(4), {}>>}}

\* the images: one L1 entry, either 0 or the offset of the L2 table
QcowImages ==
    LET size == 2 * (2 ^ QcowClusterBits)
        l2_offset == QcowL2Cluster * (2 ^ QcowClusterBits)
    IN {QCow2_init(t.has_subclusters, size, <<WordOf(l2_offset) \cup QCOW_OFLAG_COPIED>>,
                   [o \in {l2_offset} |-> t.table]) : t \in QcowTables}
       \cup {QCow2_init(hs, size, <<{}>>, [o \in {l2_offset} |-> <<>>]) : hs \in BOOLEAN}

\* a chain of images, base first; each image but the base has the one before
\* it as its backing file
InitQCow2 ==
    /\ \E n \in 1..QcowMaxChain : disk \in [layers : [1..n -> QcowImages]]
    /\ call = [op |-> "open"]
    /\ ret = <<>>

\* _read(offset, length) of whole clusters on the stream of the top image
QCow2Read ==
    /\ \E c \in 0..1 : \E n \in 1..(2 - c) :
         LET top == disk.layers[Len(disk.layers)]
         IN /\ call' = [op |-> "_read", offset |-> c * top.cluster_size,
                        length |-> n * top.cluster_size]
            /\ ret' \in {QCow2Stream_read(disk.layers, Len(disk.layers),
                                          c * top.cluster_size, n * top.cluster_size)}
    /\ UNCHANGED disk

SpecQCow2 == InitQCow2 /\ [][QCow2Read]_vars

\* the 512 bytes at a logical offset as the newest layer that has them gives
\* them: the subcluster type says whether layer k holds them
RECURSIVE QcowNewest(_, _, _)
QcowNewest(layers, k, off) ==
    LET qcow2 == layers[k]
        l2_offset == WordValue(qcow2.l1_table[1] \cap L1E_OFFSET_MASK)
        l2_index == off \div qcow2.cluster_size
        sc_index == (off % qcow2.cluster_size) \div qcow2.subcluster_size
        l2_entry == L2Table_entry(qcow2, qcow2.l2[l2_offset], l2_index)
        sc_type == IF l2_offset = 0 THEN "QCOW2_SUBCLUSTER_UNALLOCATED_PLAIN"
                   ELSE get_subcluster_type(qcow2, l2_entry,
                            L2Table_bitmap(qcow2, qcow2.l2[l2_offset], l2_index), sc_index)
    IN IF sc_type \in ZERO_SUBCLUSTER_TYPES THEN ZERO
       ELSE IF sc_type \in UNALLOCATED_SUBCLUSTER_TYPES
         THEN (IF k > 1 THEN QcowNewest(layers, k - 1, off) ELSE ZERO)
       ELSE IF sc_type = "QCOW2_SUBCLUSTER_COMPRESSED"
         THEN <<QcowDecompressed[k],
                WordValue(l2_entry \cap (0..(qcow2.csize_shift - 1)))
                  + (off % qcow2.cluster_size)>>
       ELSE <<QcowFile[k], WordValue(l2_entry \cap L2E_OFFSET_MASK) + (off % qcow2.cluster_size)>>

\* C1: with a backing file attached every unallocated run reads the backing
\* stream at the same logical offset and every other run reads this image, so
\* in a chain base <- middle <- top a read returns, for each cluster, the bytes
\* of the newest layer that has it allocated, and zeros when no layer has it.
C1_ParentFallback ==
    (call.op = "_read") =>
        /\ ret.error = ""
        /\ Len(ret.data) * (2 ^ MIN_CLUSTER_BITS) = call.length
        /\ \A i \in 1..Len(ret.data) :
             ret.data[i] = QcowNewest(disk.layers, Len(disk.layers),
                                      call.offset + (i - 1) * (2 ^ MIN_CLUSTER_BITS))

----------------------------------------------------------------------------
(* Veeam VBK: backup/vbk.py, backup/c_vbk.py *)

\* descriptor versions and checksum values of the modelled files
VbkVersions == 3
VbkCrcValues == 4

\* a slot whose checksum is never compared with the stored one
SnapshotSlot_verifyUnchecked(vbk, slot) == slot.ContainsSnapshot # 0

\* SnapshotSlot.verify: the checksum of the bytes that follow the CRC field (the
\* rest of the slot header, the descriptor, the banks) against header.CRC;
\* crc32c for SnapshotSlotFormat > 5 and crc32 otherwise, two different
\* functions of the same bytes
SnapshotSlot_verify(vbk, slot) ==
    LET bytes == slot.ContainsSnapshot + 2 * slot.Version
        crc32 == bytes % VbkCrcValues
        crc32c == (3 * bytes + 1) % VbkCrcValues
    IN IF slot.ContainsSnapshot = 0 THEN FALSE
       ELSE (IF vbk.SnapshotSlotFormat > 5 THEN crc32c ELSE crc32) = slot.CRC

\* VBK.__init__: the slots that contain a snapshot, those of them that verify
\* when asked to, and of the rest the first of the highest descriptor Version
\* (max() keeps the first of equal keys); no slot left is a VBKError
VBK_init(vbk, verify) ==
    LET populated_slots == {i \in 1..2 : vbk.slot[i].ContainsSnapshot # 0}
        verified == IF verify THEN {i \in populated_slots : SnapshotSlot_verify(vbk, vbk.slot[i])}
                    ELSE populated_slots
        best == {i \in verified : \A j \in verified : vbk.slot[j].Version <= vbk.slot[i].Version}
    IN IF verified = {} THEN [error |-> "VBKError", active_slot |-> 0]
       ELSE [error |-> "", active_slot |-> CHOOSE i \in best : \A j \in best : i <= j]

\* StorageHeader and the two SnapshotSlot regions of a file
VbkFiles ==
    [SnapshotSlotFormat : {5, 6},
     slot : [1..2 -> [CRC : 0..(VbkCrcValues - 1), ContainsSnapshot : {0, 1},
                      Version : 1..VbkVersions]]]

InitVBK ==
    /\ disk \in VbkFiles
    /\ call = [op |-> "import"]
    /\ ret = [error |-> "", active_slot |-> 0]

\* VBK(fh, verify)
VBKOpen ==
    /\ call.op = "import"
    /\ \E verify \in BOOLEAN :
         /\ call' = [op |-> "VBK", verify |-> verify]
         /\ ret' = VBK_init(disk, verify)
    /\ UNCHANGED disk

SpecVBK == InitVBK /\ [][VBKOpen]_vars

\* a slot that contains a snapshot and whose stored CRC is the checksum of its bytes
VbkValidSlot(vbk, i) ==
    /\ vbk.slot[i].ContainsSnapshot # 0
    /\ vbk.slot[i].CRC = (IF vbk.SnapshotSlotFormat > 5
                          THEN (3 * (vbk.slot[i].ContainsSnapshot + 2 * vbk.slot[i].Version) + 1)
                                   % VbkCrcValues
                          ELSE (vbk.slot[i].ContainsSnapshot + 2 * vbk.slot[i].Version)
                                   % VbkCrcValues)

\* C11: a verifying open makes active a valid slot (snapshot present, CRC
\* right) of the highest Version among the valid slots; of two valid slots with
\* versions v1 < v2 the one with v2, and slot 1 when slot 2's CRC is wrong and
\* slot 1 is valid; without a valid slot the open fails.
C11_SlotSelection ==
    (call.op = "VBK" /\ call.verify) =>
        LET valid == {i \in 1..2 : VbkValidSlot(disk, i)}
        IN /\ (valid = {}) <=> (ret.error = "VBKError")
           /\ valid # {} =>
                /\ ret.active_slot \in valid
                /\ \A j \in valid : disk.slot[j].Version <= disk.slot[ret.active_slot].Version
           /\ (valid = {1, 2} /\ disk.slot[1].Version < disk.slot[2].Version)
                => ret.active_slot = 2
           /\ (valid = {1}) => ret.active_slot = 1

\* slot 2 has the higher Version and a wrong CRC, slot 1 is valid and active
C11_Witness ==
    /\ call.op = "VBK" /\ call.verify
    /\ VbkValidSlot(disk, 1)
    /\ disk.slot[2].ContainsSnapshot # 0 /\ ~VbkValidSlot(disk, 2)
    /\ disk.slot[1].Version < disk.slot[2].Version
    /\ ret.active_slot = 1

----------------------------------------------------------------------------
(* VBK MetaVector2: the two-level page table of backup/vbk.py *)

PAGE_SIZE == 4096

\* MetaVector2._MAX_TABLE_ENTRIES_PER_PAGE
MAX_TABLE_ENTRIES_PER_PAGE == PAGE_SIZE \div 8

\* a slot count per page that starts the cycle one page late
MAX_TABLE_ENTRIES_LOOKUP_LATE ==
    <<MAX_TABLE_ENTRIES_PER_PAGE - 1, MAX_TABLE_ENTRIES_PER_PAGE - 1,
      MAX_TABLE_ENTRIES_PER_PAGE - 4>>

\* MetaVector2._MAX_TABLE_ENTRIES_LOOKUP, indexed by table_idx % 3
MAX_TABLE_ENTRIES_LOOKUP ==
    <<MAX_TABLE_ENTRIES_PER_PAGE - 1, MAX_TABLE_ENTRIES_PER_PAGE - 4,
      MAX_TABLE_ENTRIES_PER_PAGE - 1>>

\* table pages of the largest modelled vector
VbkTablePages == 5

\* what the slots of the modelled tables count from
VbkSentinelBases == {0, 100000}

\* the header words of table page i of a table of num_pages pages: the root
\* page holds page 1 as the next page and the root page, pages 1, 4, 7, ...
\* hold the next page, their own number and the next two, the others the next
\* page only; on these pages -1 stands for no page, as MetaBlob._read expects
\* of the last page
MetaVector2Header(num_pages, i) ==
    LET page(n) == IF n < num_pages THEN n ELSE -1
    IN IF i = 0 THEN <<i + 1, 0>>
       ELSE IF i % 3 = 1 THEN <<page(i + 1), i, page(i + 1), page(i + 2)>>
       ELSE <<page(i + 1)>>

\* the page-number slots held by the table pages before page i
RECURSIVE MetaVector2SlotsBefore(_, _)
MetaVector2SlotsBefore(num_pages, i) ==
    IF i = 0 THEN 0
    ELSE MetaVector2SlotsBefore(num_pages, i - 1)
             + MAX_TABLE_ENTRIES_PER_PAGE - Len(MetaVector2Header(num_pages, i - 1))

\* self._table[k]: the meta blob of the table read as 64-bit words, headers
\* included; the n-th page-number slot in layout order holds base + n
MetaVector2_table(vec, k) ==
    LET i == k \div MAX_TABLE_ENTRIES_PER_PAGE
        pos == k % MAX_TABLE_ENTRIES_PER_PAGE
        header == MetaVector2Header(vec.num_pages, i)
    IN IF k >= vec.num_pages * MAX_TABLE_ENTRIES_PER_PAGE
         THEN [error |-> "IndexError", page |-> 0]
       ELSE IF pos < Len(header) THEN [error |-> "", page |-> header[pos + 1]]
       ELSE [error |-> "",
             page |-> vec.base + MetaVector2SlotsBefore(vec.num_pages, i) + pos - Len(header)]

\* the while loop of MetaVector2._lookup_page
RECURSIVE MetaVector2_lookup_loop(_, _, _)
MetaVector2_lookup_loop(vec, idx, table_idx) ==
    LET max_entries == MAX_TABLE_ENTRIES_LOOKUP[(table_idx % 3) + 1]
    IN IF idx < max_entries
         THEN MetaVector2_table(vec, table_idx * MAX_TABLE_ENTRIES_PER_PAGE
                                       + (MAX_TABLE_ENTRIES_PER_PAGE - max_entries) + idx)
       ELSE MetaVector2_lookup_loop(vec, idx - max_entries, table_idx + 1)

\* MetaVector2._lookup_page
MetaVector2_lookup_page(vec, idx) ==
    IF idx < MAX_TABLE_ENTRIES_PER_PAGE - 2 THEN MetaVector2_table(vec, idx + 2)
    ELSE MetaVector2_lookup_loop(vec, idx - (MAX_TABLE_ENTRIES_PER_PAGE - 2), 1)

\* a table and a page index: every index below the table's capacity and the
\* first ones past it. The tables have two pages or more: the root page names
\* page 1 as its next page, so the chain that MetaBlob._read follows ends on a
\* later page
InitMetaVector2 ==
    /\ \E num_pages \in 2..VbkTablePages : \E base \in VbkSentinelBases :
       \E idx \in 0..(MetaVector2SlotsBefore(num_pages, num_pages) + 1) :
         disk = [num_pages |-> num_pages, base |-> base, idx |-> idx]
    /\ call = [op |-> "import"]
    /\ ret = [error |-> "", page |-> 0]

\* vec._lookup_page(idx)
LookupPage ==
    /\ call.op = "import"
    /\ call' = [op |-> "_lookup_page", idx |-> disk.idx]
    /\ ret' = MetaVector2_lookup_page(disk, disk.idx)
    /\ UNCHANGED disk

SpecMetaVector2 == InitMetaVector2 /\ [][LookupPage]_vars

\* C12: for every i below the table's capacity _lookup_page(i) returns what the
\* i-th page-number slot in layout order (510 slots in the root page, then 508,
\* 511, 511 cyclically) holds; on a table whose slots hold 0, 1, 2, ... it
\* returns i.
C12_LookupPage ==
    (/\ call.op = "_lookup_page"
     /\ call.idx < MetaVector2SlotsBefore(disk.num_pages, disk.num_pages)) =>
        /\ ret.error = ""
        /\ ret.page = disk.base + call.idx

\* a lookup in the second page of the cycle's second round (the fifth table page)
C12_Witness ==
    /\ call.op = "_lookup_page"
    /\ disk.num_pages >= 5
    /\ call.idx >= MetaVector2SlotsBefore(disk.num_pages, 4)
    /\ call.idx < MetaVector2SlotsBefore(disk.num_pages, 5)
    /\ ret.page = disk.base + call.idx

----------------------------------------------------------------------------
(* VBK directory items and FibStream: backup/vbk.py *)

\* c_vbk.BlockLocationType and c_vbk.CompressionType
BlockLocationType_Normal == 0
BlockLocationType_Sparse == 1
BlockLocationType_BlockInBlobReserved == 5
CompressionType_Plain == -1
CompressionType_LZ4 == 7

\* units in a block, blocks of the modelled files
VbkBlockSize == 2
VbkFibBlocks == 2

\* a class map that takes an external file for an internal one
DirItem_from_bytesExtAsInt(type) ==
    CASE type = "Root" -> "RootDirectory"
      [] type = "SubFolder" -> "SubFolderItem"
      [] type \in {"ExtFib", "IntFib"} -> "IntFibItem"
      [] type = "Patch" -> "PatchItem"
      [] type = "Increment" -> "IncrementItem"
      [] OTHER -> "DirItem"

\* DirItem.from_bytes: the class of an item of a DirItemType; "Root" is the
\* RootDirectory that VBK.__init__ makes without a record
DirItem_from_bytes(type) ==
    CASE type = "Root" -> "RootDirectory"
      [] type = "SubFolder" -> "SubFolderItem"
      [] type = "ExtFib" -> "ExtFibItem"
      [] type = "IntFib" -> "IntFibItem"
      [] type = "Patch" -> "PatchItem"
      [] type = "Increment" -> "IncrementItem"
      [] OTHER -> "DirItem"

\* a block translation that delivers zeros whatever the block is
FibStream_blockZeroFill(fib, block_idx, offset_in_block, read_size) ==
    [error |-> "", data |-> Zeros(read_size, 1)]

\* one round of the loop of FibStream._read: table.get(block_idx) and the
\* bytes of that block, or the error raised for it
FibStream_block(fib, block_idx, offset_in_block, read_size) ==
    IF block_idx >= fib.count THEN [error |-> "IndexError", data |-> <<>>]
    ELSE
    LET block_desc == IF fib.page = -1
                        THEN [type |-> BlockLocationType_Sparse, block_id |-> 0]
                      ELSE fib.blocks[block_idx + 1]
    IN IF block_desc.type = BlockLocationType_Normal
         THEN IF block_desc.block_id >= Len(fib.block_store)
                THEN [error |-> "IndexError", data |-> <<>>]
              ELSE
              LET block == fib.block_store[block_desc.block_id + 1]
                  raw == Data("vbk", block.offset, block.compressed_size, 1)
              IN IF block.compression_type # CompressionType_Plain
                   THEN IF block.compression_type = CompressionType_LZ4
                          THEN [error |-> "",
                                data |-> Slice(Data("lz4", block.offset, block.source_size, 1),
                                               offset_in_block + 1, offset_in_block + read_size)]
                        ELSE [error |-> "VBKError", data |-> <<>>]
                 ELSE [error |-> "",
                       data |-> Slice(raw, offset_in_block + 1, offset_in_block + read_size)]
       ELSE IF block_desc.type = BlockLocationType_Sparse
         THEN [error |-> "", data |-> Zeros(read_size, 1)]
       ELSE [error |-> "VBKError", data |-> <<>>]

\* FibStream._read
RECURSIVE FibStream_read(_, _, _, _)
FibStream_read(fib, offset, length, result) ==
    IF length > 0
      THEN LET block_idx == offset \div fib.block_size
               offset_in_block == offset % fib.block_size
               read_size == Min(length, fib.block_size - offset_in_block)
               got == FibStream_block(fib, block_idx, offset_in_block, read_size)
           IN IF got.error # "" THEN got
              ELSE FibStream_read(fib, offset + read_size, length - read_size,
                                  result \o got.data)
    ELSE [error |-> "", data |-> result]

\* the directory items of a file: an item of every type; an internal file has
\* a block table (or none: page -1) over a block store that holds a plain, an
\* LZ4 and a ZLH block
VbkItems ==
    LET stored(i, c) == [offset |-> 16 * i, compression_type |-> c,
                         compressed_size |-> IF c = CompressionType_Plain THEN VbkBlockSize ELSE 1,
                         source_size |-> VbkBlockSize]
        store == <<stored(1, CompressionType_Plain), stored(2, CompressionType_LZ4),
                   stored(3, 3)>>
        descs == {[type |-> BlockLocationType_Normal, block_id |-> i] : i \in 0..2}
                 \cup {[type |-> t, block_id |-> 0]
                         : t \in BlockLocationType_Sparse..BlockLocationType_BlockInBlobReserved}
        none == [page |-> -1, count |-> 0, blocks |-> <<>>, block_store |-> <<>>,
                 block_size |-> VbkBlockSize]
    IN {[type |-> t, fib |-> none]
          : t \in {"Root", "None", "SubFolder", "ExtFib", "Patch", "Increment"}}
       \cup {[type |-> "IntFib",
              fib |-> [page |-> p, count |-> VbkFibBlocks, blocks |-> b, block_store |-> store,
                       block_size |-> VbkBlockSize]]
               : p \in {-1, 7}, b \in [1..VbkFibBlocks -> descs]}

InitDirItem ==
    /\ disk \in VbkItems
    /\ call = [op |-> "get"]
    /\ ret = [error |-> "", data |-> <<>>]

\* item.open(): only IntFibItem overrides DirItem.open, which raises
DirItemOpen ==
    /\ call.op = "get"
    /\ call' = [op |-> "open"]
    /\ ret' = [error |-> IF DirItem_from_bytes(disk.type) = "IntFibItem" THEN ""
                         ELSE "NotAFileError",
               data |-> <<>>]
    /\ UNCHANGED disk

\* item.iterdir(): RootDirectory and SubFolderItem override DirItem.iterdir,
\* which raises
DirItemIterdir ==
    /\ call.op = "get"
    /\ call' = [op |-> "iterdir"]
    /\ ret' = [error |-> IF DirItem_from_bytes(disk.type) \in {"RootDirectory", "SubFolderItem"}
                           THEN "" ELSE "NotADirectoryError",
               data |-> <<>>]
    /\ UNCHANGED disk

\* a read of the opened stream: AlignedStream hands _read whole blocks
FibStreamRead ==
    /\ call.op \in {"open", "_read"}
    /\ DirItem_from_bytes(disk.type) = "IntFibItem"
    /\ \E b \in 0..(disk.fib.count - 1) : \E n \in 1..(disk.fib.count - b) :
         /\ call' = [op |-> "_read", offset |-> b * disk.fib.block_size,
                     length |-> n * disk.fib.block_size]
         /\ ret' = FibStream_read(disk.fib, b * disk.fib.block_size,
                                  n * disk.fib.block_size, <<>>)
    /\ UNCHANGED disk

NextDirItem == DirItemOpen \/ DirItemIterdir \/ FibStreamRead

SpecDirItem == InitDirItem /\ [][NextDirItem]_vars

\* the block descriptor that the table of a file has for block i
VbkBlockDesc(fib, i) ==
    IF fib.page = -1 THEN [type |-> BlockLocationType_Sparse, block_id |-> 0]
    ELSE fib.blocks[i + 1]

\* block i is of a location type that is not read, or is stored with a
\* compression that is not decoded
VbkUnsupportedBlock(fib, i) ==
    LET d == VbkBlockDesc(fib, i)
    IN \/ d.type \notin {BlockLocationType_Normal, BlockLocationType_Sparse}
       \/ /\ d.type = BlockLocationType_Normal
          /\ fib.block_store[d.block_id + 1].compression_type
                 \notin {CompressionType_Plain, CompressionType_LZ4}

\* C13: a read whose range holds a Reserved, Archived, BlockInBlob or
\* BlockInBlobReserved block, or a stored block whose compression is neither
\* plain nor LZ4, raises an error and returns no data.
C13_UnsupportedBlocks ==
    (/\ call.op = "_read"
     /\ \E i \in (call.offset \div disk.fib.block_size)
                   ..((call.offset + call.length - 1) \div disk.fib.block_size) :
          VbkUnsupportedBlock(disk.fib, i)) =>
        /\ ret.error # ""
        /\ ret.data = <<>>

\* a read of two blocks: the first is stored and readable, the second Archived
C13_Witness ==
    /\ call.op = "_read"
    /\ call.offset = 0 /\ call.length = 2 * disk.fib.block_size
    /\ disk.fib.page # -1
    /\ ~VbkUnsupportedBlock(disk.fib, 0)
    /\ disk.fib.blocks[1].type = BlockLocationType_Normal
    /\ disk.fib.blocks[2].type = 3
    /\ ret.error = "VBKError"

\* C14 as stated: open() succeeds exactly for IntFib and ExtFib items,
\* iterdir() exactly for Root and SubFolder items.
C14_ExtFibOpens ==
    /\ (call.op = "open") => ((ret.error = "") <=> (disk.type \in {"IntFib", "ExtFib"}))
    /\ (call.op = "iterdir") => ((ret.error = "") <=> (disk.type \in {"Root", "SubFolder"}))

\* C14: open() succeeds exactly for IntFib items (an ExtFib item is a file
\* whose open() raises NotAFileError), iterdir() exactly for Root and
\* SubFolder items.
C14_OpenableItems ==
    /\ (call.op = "open") => ((ret.error = "") <=> (disk.type = "IntFib"))
    /\ (call.op = "iterdir") => ((ret.error = "") <=> (disk.type \in {"Root", "SubFolder"}))

\* open() of an external file has raised
C14_Witness ==
    /\ call.op = "open"
    /\ disk.type = "ExtFib"
    /\ ret.error = "NotAFileError"

----------------------------------------------------------------------------
(* QCOW2 reads of damaged and incomplete images: disk/qcow2.py *)

\* the subcluster type that layer k has for the 512 bytes at off
QcowTypeAt(layers, k, off) ==
    LET qcow2 == layers[k]
        l2_offset == WordValue(qcow2.l1_table[1] \cap L1E_OFFSET_MASK)
        l2_index == off \div qcow2.cluster_size
    IN IF l2_offset = 0 THEN "QCOW2_SUBCLUSTER_UNALLOCATED_PLAIN"
       ELSE get_subcluster_type(qcow2, L2Table_entry(qcow2, qcow2.l2[l2_offset], l2_index),
                                L2Table_bitmap(qcow2, qcow2.l2[l2_offset], l2_index),
                                (off % qcow2.cluster_size) \div qcow2.subcluster_size)

\* the request of the top image holds a subcluster whose bitmap is invalid
QcowInvalidInRange ==
    \E i \in 0..((call.length \div (2 ^ MIN_CLUSTER_BITS)) - 1) :
        QcowTypeAt(disk.layers, Len(disk.layers), call.offset + i * (2 ^ MIN_CLUSTER_BITS))
            = "QCOW2_SUBCLUSTER_INVALID"

\* C15: a read of a range that holds a subcluster with an invalid bitmap
\* (allocation bit and zero bit both set) ends with an error raised; it
\* neither returns a result nor runs without end.
C15_InvalidBitmapRaises ==
    (call.op = "_read" /\ QcowInvalidInRange) => ret.error \notin {"", "NoProgress"}

----------------------------------------------------------------------------
(* QCOW2 construction and open: QCow2.__init__ and QCow2.open of disk/qcow2.py *)
(* An image file says whether it needs a data file and a backing file; next  *)
(* to it there may be the files it names.  "None" stands for Python's None.  *)

\* QCow2.__init__(fh, data_file, backing_file, allow_no_data_file=...,
\* allow_no_backing_file=...): the data file and the backing file of the new
\* object, or the Error raised.  A backing file that is itself a qcow2 image
\* is opened by QCow2(...).open() with no options: when it names a backing
\* file of its own, that one is found only if the image was given as a Path
\* and the file exists.
QCow2_new(image, fh, data_file, backing_file, allow_no_data_file, allow_no_backing_file) ==
    LET by_path == fh = "Path"
        data == IF ~image.needs_data_file THEN "fh"
                ELSE IF data_file # "None" THEN data_file
                ELSE IF by_path /\ image.data_exists THEN "data"
                ELSE IF ~allow_no_data_file THEN "Error"
                ELSE "None"
        found == backing_file = "None" /\ by_path /\ image.backing_exists # "None"
        kind == IF backing_file # "None" THEN backing_file
                ELSE IF found THEN image.backing_exists
                ELSE "None"
        backing == IF ~image.needs_backing_file THEN "None"
                   ELSE IF kind = "None"
                     THEN (IF ~allow_no_backing_file THEN "Error" ELSE "None")
                   ELSE IF kind = "qcow2_chain_missing" THEN "Error"
                   ELSE IF kind = "qcow2_chain_found" /\ ~found THEN "Error"
                   ELSE "backing"
    IN IF data = "Error" \/ backing = "Error"
         THEN [error |-> "Error", data_file |-> "None", backing_file |-> "None"]
       ELSE [error |-> "", data_file |-> data, backing_file |-> backing]

\* an open() that hands out a stream whatever is missing
QCow2_openUnchecked(image, qcow2) == [error |-> "", data |-> <<>>]

\* QCow2.open(): has_data_file is `data_file is not None and data_file != fh`
QCow2_open(image, qcow2) ==
    LET has_data_file == qcow2.data_file # "None" /\ qcow2.data_file # "fh"
        has_backing_file == qcow2.backing_file # "None"
    IN IF image.needs_data_file /\ ~has_data_file THEN [error |-> "Error", data |-> <<>>]
       ELSE IF image.needs_backing_file /\ ~has_backing_file
         THEN [error |-> "Error", data |-> <<>>]
       ELSE [error |-> "", data |-> <<>>]

\* an image file, what its header asks for and what lies next to it; nothing
\* is constructed yet
InitQCow2Open ==
    /\ disk \in [content : QcowImages,
                 needs_data_file : BOOLEAN, needs_backing_file : BOOLEAN,
                 data_exists : BOOLEAN,
                 backing_exists : {"None", "raw", "qcow2", "qcow2_chain_found",
                                   "qcow2_chain_missing"},
                 qcow2 : {[error |-> "Error", data_file |-> "None", backing_file |-> "None"]}]
    /\ call = [op |-> "import"]
    /\ ret = [error |-> "", data |-> <<>>]

\* QCow2(fh, data_file, backing_file, allow_no_data_file=a, allow_no_backing_file=b)
QCow2New ==
    /\ call.op = "import"
    /\ \E fh \in {"BinaryIO", "Path"} : \E data_file \in {"None", "data"} :
       \E backing_file \in {"None", "raw", "qcow2", "qcow2_chain_found"} :
       \E allow_no_data_file \in BOOLEAN : \E allow_no_backing_file \in BOOLEAN :
         LET made == QCow2_new(disk, fh, data_file, backing_file,
                               allow_no_data_file, allow_no_backing_file)
         IN /\ call' = [op |-> "QCow2", fh |-> fh, data_file |-> data_file,
                        backing_file |-> backing_file,
                        allow_no_data_file |-> allow_no_data_file,
                        allow_no_backing_file |-> allow_no_backing_file]
            /\ disk' = [disk EXCEPT !.qcow2 = made]
            /\ ret' = [error |-> made.error, data |-> <<>>]

\* qcow2.open() on a constructed object; it can be called again
QCow2Open ==
    /\ call.op \in {"QCow2", "open"}
    /\ disk.qcow2.error = ""
    /\ call' = [op |-> "open"]
    /\ ret' = QCow2_open(disk, disk.qcow2)
    /\ UNCHANGED disk

\* QCow2Stream(qcow2)._read(offset, length) of whole clusters: a stream made
\* on an object that keeps its data in the image and has no backing file
QCow2StreamRead ==
    /\ call.op \in {"QCow2", "open"}
    /\ disk.qcow2.error = "" /\ disk.qcow2.data_file = "fh" /\ disk.qcow2.backing_file = "None"
    /\ \E c \in 0..1 : \E n \in 1..(2 - c) :
         /\ call' = [op |-> "_read", offset |-> c * disk.content.cluster_size,
                     length |-> n * disk.content.cluster_size]
         /\ ret' \in {QCow2Stream_read(<<disk.content>>, 1, c * disk.content.cluster_size,
                                       n * disk.content.cluster_size)}
    /\ UNCHANGED disk

NextQCow2Open == QCow2New \/ QCow2Open \/ QCow2StreamRead

SpecQCow2Open == InitQCow2Open /\ [][NextQCow2Open]_vars

\* the sectors a read was asked for are all unallocated in the image, so that
\* they would come from the parent
QcowRangeFromParent ==
    \A i \in 1..(call.length \div (2 ^ MIN_CLUSTER_BITS)) :
        QcowTypeAt(<<disk.content>>, 1, call.offset + (i - 1) * (2 ^ MIN_CLUSTER_BITS))
            \in UNALLOCATED_SUBCLUSTER_TYPES

\* C16: an image that names a backing file, constructed with
\* allow_no_backing_file and without a backing file, opens for reading, and
\* every range that would come from the parent reads as zeros.
C16_OpensWithoutParent ==
    /\ (/\ call.op = "open"
        /\ disk.needs_backing_file /\ disk.qcow2.backing_file = "None")
       => ret.error = ""
    /\ (/\ call.op = "_read"
        /\ disk.needs_backing_file /\ disk.qcow2.backing_file = "None"
        /\ QcowRangeFromParent)
       => /\ ret.error = ""
          /\ ret.data = Zeros(call.length, 2 ^ MIN_CLUSTER_BITS)

\* the files that the image needs and that the call neither was given nor
\* could find next to a Path
QcowMissing(image, c) ==
    {f \in {"data", "backing"} :
       IF f = "data"
         THEN image.needs_data_file /\ c.data_file = "None"
              /\ ~(c.fh = "Path" /\ image.data_exists)
       ELSE image.needs_backing_file /\ c.backing_file = "None"
            /\ ~(c.fh = "Path" /\ image.backing_exists # "None")}

\* C17: the constructor raises Error when a needed data file or backing file
\* is missing and not allowed to be; when every missing file is allowed to be
\* missing it succeeds with that file None; open() of an object raises Error
\* whenever a needed file is None.
C17_MissingDependency ==
    /\ (call.op = "QCow2") =>
         LET missing == QcowMissing(disk, call)
             allowed == {f \in missing : IF f = "data" THEN call.allow_no_data_file
                                         ELSE call.allow_no_backing_file}
             \* the backing file in use, if it is a qcow2 image, opens
             opens == IF call.backing_file # "None"
                        THEN call.backing_file \in {"raw", "qcow2"}
                      ELSE ~(call.fh = "Path" /\ disk.needs_backing_file
                             /\ disk.backing_exists = "qcow2_chain_missing")
         IN /\ (missing # allowed) => ret.error = "Error"
            /\ (missing # {} /\ missing = allowed /\ opens)
               => /\ ret.error = ""
                  /\ ("data" \in missing) => disk.qcow2.data_file = "None"
                  /\ ("backing" \in missing) => disk.qcow2.backing_file = "None"
    /\ (/\ call.op = "open"
        /\ \/ disk.needs_data_file /\ disk.qcow2.data_file = "None"
           \/ disk.needs_backing_file /\ disk.qcow2.backing_file = "None")
       => ret.error = "Error"

\* open() has raised, again, on an object constructed without its data file
C17_Witness ==
    /\ call.op = "open"
    /\ disk.needs_data_file /\ disk.qcow2.error = "" /\ disk.qcow2.data_file = "None"
    /\ ret.error = "Error"

(***************************************************************************)
(* Proxmox VMA: backup/vma.py.  An archive is a header followed by extents; *)
(* an extent header lists blockinfo entries (dev_id, cluster_num, mask) and  *)
(* is followed by the present 4 KiB blocks of those clusters, packed.        *)
(***************************************************************************)

VMA_BLOCK_SIZE == 4096

VMA_EXTENT_HEADER_SIZE == 512

\* the highest cluster number of an archive is VmaClusters - 1
VmaClusters == 3

\* the longest request, in clusters
VmaCount == 2

VmaDevices == {1, 2}

\* a sparse cluster, a cluster with blocks 0 and 2, a full cluster
VmaMasks == {0, 5, 65535}

\* Extent.__init__(fh, offset): the entries of each device in header order
\* (entries of device 0 are unused slots); _min and _max of a device are the
\* lowest and highest cluster number among its entries
Extent_init(offset, header) ==
    [offset |-> offset,
     data_offset |-> offset + VMA_EXTENT_HEADER_SIZE,
     size |-> header.block_count * VMA_BLOCK_SIZE,
     blocks |-> [d \in VmaDevices |-> SelectSeq(header.blockinfo, LAMBDA b : b.dev_id = d)]]

\* VMA.extents(): the extents at header_size, then each after the data of the
\* one before
VMA_extents(vma) ==
    LET offset[i \in 1..Len(vma.extents)] ==
            IF i = 1 THEN vma.header_size
            ELSE offset[i - 1] + VMA_EXTENT_HEADER_SIZE
                 + vma.extents[i - 1].block_count * VMA_BLOCK_SIZE
    IN [i \in 1..Len(vma.extents) |-> Extent_init(offset[i], vma.extents[i])]

\* `while cluster in temp: yield temp[cluster]; del temp[cluster]; cluster += 1`
\* temp is kept as the set of its values, one for each cluster number
RECURSIVE iter_clusters_drain(_)
iter_clusters_drain(st) ==
    IF \E t \in st.temp : t[1] = st.cluster
      THEN LET t == CHOOSE t \in st.temp : t[1] = st.cluster
           IN iter_clusters_drain([cluster |-> st.cluster + 1,
                                   temp |-> st.temp \ {t},
                                   out |-> Append(st.out, t)])
    ELSE st

\* the two nested loops of _iter_clusters, at entry j of extent i
RECURSIVE iter_clusters_loop(_, _, _, _, _, _, _)
iter_clusters_loop(extents, dev_id, end, i, j, block_offset, st) ==
    IF i > Len(extents) THEN st
    ELSE
      LET extent == extents[i]
          blocks == extent.blocks[dev_id]
          nums == {blocks[k].cluster_num : k \in 1..Len(blocks)}
      IN IF j = 0
           THEN \* the head of the outer loop
                IF blocks = <<>>
                  THEN iter_clusters_loop(extents, dev_id, end, i + 1, 0, 0, st)
                ELSE IF \/ \A n \in nums : end < n         \* end < extent._min[dev_id]
                        \/ \A n \in nums : st.cluster > n  \* cluster > extent._max[dev_id]
                  THEN iter_clusters_loop(extents, dev_id, end, i + 1, 0, 0, st)
                ELSE iter_clusters_loop(extents, dev_id, end, i, 1, extent.data_offset, st)
         ELSE IF j > Len(blocks)
           THEN IF st.cluster = end THEN st
                ELSE iter_clusters_loop(extents, dev_id, end, i + 1, 0, 0, st)
         ELSE
           LET cluster_num == blocks[j].cluster_num
               mask == blocks[j].mask
               st1 == IF cluster_num = st.cluster
                        THEN iter_clusters_drain(
                                 [st EXCEPT !.cluster = @ + 1,
                                            !.out = Append(@, <<cluster_num, mask, block_offset>>)])
                      ELSE IF st.cluster < cluster_num /\ cluster_num <= end
                        THEN [st EXCEPT !.temp = {t \in @ : t[1] # cluster_num}
                                                 \cup {<<cluster_num, mask, block_offset>>}]
                      ELSE st
               count == Cardinality({b \in 0..15 : (mask \div (2 ^ b)) % 2 = 1})
               next_offset == IF mask = 65535 THEN block_offset + 16 * VMA_BLOCK_SIZE
                              ELSE IF mask = 0 THEN block_offset
                              ELSE block_offset + count * VMA_BLOCK_SIZE
           IN IF st1.cluster = end THEN st1
              ELSE Strict(st1, LAMBDA s :
                       iter_clusters_loop(extents, dev_id, end, i, j + 1, next_offset, s))

\* _iter_clusters(vma, dev_id, cluster, count): the tuples
\* (cluster_num, mask, block_offset) in the order they are yielded
iter_clusters(vma, dev_id, cluster, count) ==
    iter_clusters_drain(
        iter_clusters_loop(VMA_extents(vma), dev_id, cluster + count, 1, 0, 0,
                           [cluster |-> cluster, temp |-> {}, out |-> <<>>])).out

\* archives of two extents, the first with two blockinfo entries and the
\* second with one; block_count is the number of blocks that follow the header
VmaFiles ==
    LET entries == {[dev_id |-> 0, cluster_num |-> 0, mask |-> 0]}
                   \cup [dev_id : VmaDevices, cluster_num : 0..(VmaClusters - 1), mask : VmaMasks]
        bits(b) == Cardinality({k \in 0..15 : (b.mask \div (2 ^ k)) % 2 = 1})
    IN {[header_size |-> 12800,
         extents |-> <<[block_count |-> bits(a) + bits(b), blockinfo |-> <<a, b>>],
                       [block_count |-> bits(c), blockinfo |-> <<c>>]>>] :
          a \in entries, b \in entries, c \in entries}

InitVMA ==
    /\ disk \in VmaFiles
    /\ call = [op |-> "import"]
    /\ ret = [error |-> "", out |-> <<>>]

\* list(_iter_clusters(vma, dev_id, cluster, count))
IterClusters ==
    /\ call.op = "import"
    /\ \E dev_id \in VmaDevices : \E cluster \in 0..(VmaClusters - 1) : \E count \in 1..VmaCount :
         /\ call' = [op |-> "_iter_clusters", dev_id |-> dev_id, cluster |-> cluster,
                     count |-> count]
         /\ ret' = [error |-> "", out |-> iter_clusters(disk, dev_id, cluster, count)]
    /\ UNCHANGED disk

SpecVMA == InitVMA /\ [][IterClusters]_vars

\* C18: _iter_clusters yields cluster numbers cluster, cluster + 1, ... in
\* ascending order without gaps, each once, and none at or past
\* cluster + count.
C18_ClusterOrder ==
    call.op = "_iter_clusters" =>
        /\ \A k \in 1..Len(ret.out) : ret.out[k][1] = call.cluster + k - 1
        /\ \A k \in 1..Len(ret.out) : ret.out[k][1] < call.cluster + call.count

\* the number of blocks stored for the entries before entry j of an extent header
RECURSIVE VmaBlocksBefore(_, _)
VmaBlocksBefore(blockinfo, j) ==
    IF j <= 1 THEN 0
    ELSE VmaBlocksBefore(blockinfo, j - 1)
         + Cardinality({k \in 0..15 : (blockinfo[j - 1].mask \div (2 ^ k)) % 2 = 1})

\* C19: every yielded block_offset is the place in the file where the packed
\* blocks of that entry start: the extent's data start plus 4096 for every
\* block of the entries before it in the extent header, of any device
\* (looked at for the entries that have blocks in the file).
C19_BlockOffset ==
    call.op = "_iter_clusters" =>
        \A k \in 1..Len(ret.out) :
            ret.out[k][2] # 0 =>
            \E i \in 1..Len(disk.extents) : \E j \in 1..Len(disk.extents[i].blockinfo) :
                LET b == disk.extents[i].blockinfo[j]
                IN /\ b.dev_id = call.dev_id
                   /\ b.cluster_num = ret.out[k][1]
                   /\ b.mask = ret.out[k][2]
                   /\ ret.out[k][3] = VMA_extents(disk)[i].data_offset
                                      + VMA_BLOCK_SIZE * VmaBlocksBefore(disk.extents[i].blockinfo, j)


(***************************************************************************)
(* QCOW2 runs: QCow2Stream._yield_runs on the stream of one image, for      *)
(* requests that start and end inside clusters.                             *)
(***************************************************************************)

InitQCow2Runs ==
    /\ disk \in {[layers |-> <<image>>] : image \in QcowImages}
    /\ call = [op |-> "open"]
    /\ ret = [error |-> "", runs |-> <<>>]

\* list(stream._yield_runs(offset, length)) for a request inside the image
YieldRuns ==
    /\ call.op = "open"
    /\ \E offset \in {0, 512, 7680, 16384, 16896} :
       \E length \in {512, 1024, 15872, 16384, 32768} :
         /\ offset + length <= disk.layers[1].size
         /\ call' = [op |-> "_yield_runs", offset |-> offset, length |-> length]
         /\ ret' \in {QCow2Stream_yield_runs(disk.layers[1], offset, length, <<>>)}
    /\ UNCHANGED disk

SpecQCow2Runs == InitQCow2Runs /\ [][YieldRuns]_vars

\* C20: _yield_runs ends without an exception; every run is at least one byte
\* long, the first starts at offset, each next one where the one before ends,
\* and the last ends at offset + length; a run covers at least the rest of the
\* subcluster it starts in, or the rest of the request when that is shorter.
C20_RunCoverage ==
    call.op = "_yield_runs" =>
        LET runs == ret.runs
            end == call.offset + call.length
            subcluster_size == 2 ^ disk.layers[1].subcluster_bits
        IN /\ ret.error = ""
           /\ runs # <<>>
           /\ runs[1][2] = call.offset
           /\ \A k \in 1..Len(runs) :
                /\ runs[k][4] >= 1
                /\ k < Len(runs) => runs[k + 1][2] = runs[k][2] + runs[k][4]
                /\ runs[k][2] + runs[k][4] <= end
                /\ runs[k][4] >= Min(subcluster_size - (runs[k][2] % subcluster_size),
                                     end - runs[k][2])
           /\ runs[Len(runs)][2] + runs[Len(runs)][4] = end

(***************************************************************************)
(* QCOW2 snapshots and the L1 bound: QCow2Snapshot.open and                 *)
(* QCow2Stream.__init__ of disk/qcow2.py.  A stream is the image with the   *)
(* L1 table it translates through; the L1 size it compares with stays the  *)
(* one of the image header.                                                 *)
(***************************************************************************)

\* QCow2Stream.__init__(qcow2, l1_table): `self.l1_table = l1_table or
\* qcow2.l1_table`; l1_table.none stands for the default None, and an empty
\* list is as false as None
QCow2Stream_init(qcow2, l1_table) ==
    [qcow2 EXCEPT !.l1_table = IF l1_table.none \/ l1_table.table = <<>>
                                 THEN qcow2.l1_table
                               ELSE l1_table.table]

\* images of four L2 regions with two L2 tables, at host clusters 1 and 5, an
\* active L1 table and the L1 tables of two snapshots
InitQCow2Snapshot ==
    /\ LET Normal(c) == WordOf(c * (2 ^ QcowClusterBits)) \cup QCOW_OFLAG_COPIED
           A == 1 * (2 ^ QcowClusterBits)
           B == 5 * (2 ^ QcowClusterBits)
           l2 == [o \in {A, B} |-> IF o = A THEN <<Normal(2), Normal(3)>>
                                   ELSE <<Normal(4), {}>>]
           PA == WordOf(A) \cup QCOW_OFLAG_COPIED
           PB == WordOf(B) \cup QCOW_OFLAG_COPIED
           tables == {<<>>, <<PA>>, <<PB>>, <<PA, PB>>, <<{}, PA>>}
           geometry == QCow2_init(FALSE, 0, <<>>, l2)
           region == geometry.l2_size * geometry.cluster_size
       IN disk \in {[image |-> QCow2_init(FALSE, 4 * region, l1, l2),
                     snapshots |-> <<s1, s2>>] :
                      l1 \in tables, s1 \in tables, s2 \in tables}
    /\ call = [op |-> "QCow2"]
    /\ ret = [error |-> "", runs |-> <<>>]

\* qcow2.open() (stream 0) or qcow2.snapshots[stream - 1].open(), then
\* list(stream._yield_runs(offset, length))
SnapshotYieldRuns ==
    /\ \E stream \in 0..2 : \E l1_index \in 0..3 : \E cluster \in 0..1 : \E n \in 1..2 :
         LET region == disk.image.l2_size * disk.image.cluster_size
             offset == l1_index * region + cluster * disk.image.cluster_size
             l1_table == IF stream = 0 THEN [none |-> TRUE, table |-> <<>>]
                         ELSE [none |-> FALSE, table |-> disk.snapshots[stream]]
         IN /\ call' = [op |-> "_yield_runs", stream |-> stream, offset |-> offset,
                        length |-> n * disk.image.cluster_size]
            /\ ret' \in {QCow2Stream_yield_runs(QCow2Stream_init(disk.image, l1_table),
                                                offset, n * disk.image.cluster_size, <<>>)}
    /\ UNCHANGED disk

SpecQCow2Snapshot == InitQCow2Snapshot /\ [][SnapshotYieldRuns]_vars

\* C21: a request that starts at an offset whose l1_index is at or past the
\* L1 size of the image raises nothing and starts with an unallocated run that
\* reaches to the end of the request or of the L2 region.
C21_L1Bound ==
    LET region == disk.image.l2_size * disk.image.cluster_size
    IN (/\ call.op = "_yield_runs"
        /\ call.offset \div region >= disk.image.l1_size)
       => /\ ret.error = ""
          /\ ret.runs # <<>>
          /\ ret.runs[1] = <<"QCOW2_SUBCLUSTER_UNALLOCATED_PLAIN", call.offset, 0,
                             Min(call.length, region - (call.offset % region))>>

\* C22: the first run of a stream opened from a snapshot is what the
\* snapshot's own L1 table and L1 size give for the offset: unallocated past
\* the end of that table or under a zero entry of it, and otherwise the cluster
\* that the L2 table of that entry names.
C22_SnapshotIsolation ==
    (call.op = "_yield_runs" /\ call.stream # 0) =>
        LET image == disk.image
            snapshot == disk.snapshots[call.stream]
            l1_index == call.offset \div (image.l2_size * image.cluster_size)
            l2_index == (call.offset \div image.cluster_size) % image.l2_size
            l2_offset == IF l1_index < Len(snapshot)
                           THEN WordValue(snapshot[l1_index + 1] \cap L1E_OFFSET_MASK)
                         ELSE 0
            l2_entry == IF l2_offset = 0 THEN {}
                        ELSE L2Table_entry(image, image.l2[l2_offset], l2_index)
        IN /\ ret.error = ""
           /\ ret.runs # <<>>
           /\ IF l2_entry = {}
                THEN ret.runs[1][1] = "QCOW2_SUBCLUSTER_UNALLOCATED_PLAIN"
              ELSE /\ ret.runs[1][1] = "QCOW2_SUBCLUSTER_NORMAL"
                   /\ ret.runs[1][3] = WordValue(l2_entry \cap L2E_OFFSET_MASK)

(***************************************************************************)
(* VHD dynamic disks: disk/vhd.py.  The file is read in sectors of 512      *)
(* bytes; a cell <<"vhd", o>> is the sector stored at byte offset o.         *)
(***************************************************************************)

\* SECTOR_SIZE of c_vhd.py is 512 as well.  The BAT entry 0xFFFFFFFF of an absent
\* block is written as the same 32 bits read as a signed number.
VhdUnused == -1

\* blocks of a modelled disk (max_table_entries)
VhdBlocks == 2

\* DynamicDisk.read_sectors(sector, count), with BlockAllocationTable.get for
\* self.bat[block]: entry 0xFFFFFFFF is None, a block past max_entries raises
RECURSIVE DynamicDisk_read_sectors(_, _, _, _)
DynamicDisk_read_sectors(vhd, sector, count, sectors_read) ==
    IF ~(count > 0) THEN [error |-> "", data |-> sectors_read]
    ELSE
      LET sectors_per_block == vhd.block_size \div SECTOR_SIZE
          sector_bitmap_size == ((sectors_per_block \div 8) + SECTOR_SIZE - 1) \div SECTOR_SIZE
          read_count == Min(count, sectors_per_block)
          block == sector \div sectors_per_block
          remaining == sector % sectors_per_block
          sector_offset == IF vhd.bat[block + 1] = VhdUnused THEN None
                           ELSE vhd.bat[block + 1]
          chunk == IF sector_offset # None /\ sector_offset # 0   \* `if sector_offset:`
                     THEN Data("vhd", (sector_offset + sector_bitmap_size + remaining) * SECTOR_SIZE,
                               read_count * SECTOR_SIZE, SECTOR_SIZE)
                   ELSE Zeros(read_count * SECTOR_SIZE, SECTOR_SIZE)
      IN IF block + 1 > Len(vhd.bat) THEN [error |-> "ValueError", data |-> <<>>]
         ELSE Strict(sectors_read \o chunk,
                     LAMBDA r : DynamicDisk_read_sectors(vhd, sector + read_count,
                                                         count - read_count, r))

\* dynamic disks of VhdBlocks blocks of 4 or 8 sectors (the sector bitmap of
\* a block takes no sector or one); a block is absent, stored at sector 0, or
\* stored at sector 24 or 48
InitVHD ==
    /\ disk \in [block_size : {2048, 4096},
                 bat : [1..VhdBlocks -> {VhdUnused, 0, 24, 48}]]
    /\ call = [op |-> "DynamicDisk"]
    /\ ret = [error |-> "", data |-> <<>>]

\* disk.read_sectors(sector, count) inside the disk
VHDReadSectors ==
    /\ call.op = "DynamicDisk"
    /\ \E sector \in 0..(VhdBlocks * 8 - 1) : \E count \in 1..(VhdBlocks * 8) :
         /\ (sector + count) * SECTOR_SIZE <= VhdBlocks * disk.block_size
         /\ call' = [op |-> "read_sectors", sector |-> sector, count |-> count]
         /\ ret' \in {DynamicDisk_read_sectors(disk, sector, count, <<>>)}
    /\ UNCHANGED disk

SpecVHD == InitVHD /\ [][VHDReadSectors]_vars

\* C23: read_sectors returns, sector by sector, zeros for a block whose BAT
\* entry is 0xFFFFFFFF and otherwise the sector stored at
\* (bat[block] + bitmap_sectors + sector_in_block) * 512, by the BAT entry of
\* the block that the sector lies in.
C23_DynamicDiskRead ==
    call.op = "read_sectors" =>
        LET sectors_per_block == disk.block_size \div SECTOR_SIZE
            bitmap_sectors == ((sectors_per_block \div 8) + 511) \div 512
        IN /\ ret.error = ""
           /\ Len(ret.data) = call.count
           /\ \A i \in 1..Len(ret.data) :
                LET s == call.sector + i - 1
                    entry == disk.bat[(s \div sectors_per_block) + 1]
                IN ret.data[i] = IF entry = VhdUnused THEN ZERO
                                 ELSE <<"vhd", (entry + bitmap_sectors + (s % sectors_per_block))
                                               * 512>>

(***************************************************************************)
(* VHDX block allocation table indices: BlockAllocationTable of             *)
(* disk/vhdx.py for disks of several sizes and chunk ratios.                *)
(***************************************************************************)

\* the largest modelled disk, in payload blocks
VhdxMaxBlocks == 6

\* VHDX.__init__ for disks of 8 MiB blocks, the last one whole or half used,
\* with or without a parent; with a logical sector size of 1, 2 or 4 bytes
\* the chunk ratio (2**23 * sector_size) // block_size is 1, 2 or 4, so that
\* the disks span several chunks
InitBAT ==
    /\ \E blocks \in 1..(2 * VhdxMaxBlocks) : \E sector_size \in {1, 2, 4} : \E parent \in BOOLEAN :
         LET block_size == 2^23
             size == blocks * (block_size \div 2)
             states == [b \in 1..((blocks + 1) \div 2) |-> PAYLOAD_BLOCK_FULLY_PRESENT]
         IN disk = VHDX_init("fh", block_size, sector_size, size, states,
                             IF parent
                               THEN <<VHDX_init("parent", block_size, sector_size, size, states,
                                                <<>>, <<0>>)>>
                               ELSE <<>>,
                             <<0>>)
    /\ call = [op |-> "BlockAllocationTable"]
    /\ ret = [entry |-> 0, error |-> ""]

\* bat.pb(block) for a block of the disk: the index handed to get() and
\* whether get() raises ValueError for it
BATpb ==
    /\ call.op = "BlockAllocationTable"
    /\ \E block \in 0..(disk.pb_count - 1) :
         /\ call' = [op |-> "pb", block |-> block]
         /\ ret' = [entry |-> BAT_pb(disk, block),
                    error |-> BAT_get(disk, BAT_pb(disk, block)).error]
    /\ UNCHANGED disk

SpecBAT == InitBAT /\ [][BATpb]_vars

\* C24: the BAT index of a payload block of the disk is inside the table, with
\* and without a parent; no other block of the disk has the same index, and it
\* is not the sector bitmap index of any block.
C24_BatIndexing ==
    call.op = "pb" =>
        /\ ret.entry = call.block + (call.block \div disk.chunk_ratio)
        /\ 0 <= ret.entry /\ ret.entry < disk.entry_count
        /\ ret.error = ""
        /\ \A b \in 0..(disk.pb_count - 1) :
             /\ b # call.block => BAT_pb(disk, b) # ret.entry
             /\ ((b \div disk.chunk_ratio) + 1) * disk.chunk_ratio + (b \div disk.chunk_ratio)
                    # ret.entry

\* the last block of a disk without a parent, in the third chunk or later
C24_Witness ==
    /\ call.op = "pb"
    /\ disk.parent = <<>>
    /\ call.block = disk.pb_count - 1
    /\ call.block \div disk.chunk_ratio >= 2
    /\ ret.entry = disk.entry_count - 1

(***************************************************************************)
(* VBK MetaVector: MetaVector.__init__ and MetaVector.data of backup/vbk.py *)
(***************************************************************************)

\* indices looked up in a vector
VbkVectorEntries == 200

\* MetaVector.data(idx) for entries of entry_size bytes: the position of the
\* page in the vector's page list, the offset of the entry in the page and
\* the length of the slice buf[offset : offset + entry_size] of the page
MetaVector_data(entry_size, idx) ==
    LET entries_per_page == PAGE_SIZE \div entry_size
        page_id == idx \div entries_per_page
        offset == ((idx % entries_per_page) * entry_size) + 8
    IN [page_id |-> page_id, offset |-> offset,
        length |-> Max(0, Min(offset + entry_size, PAGE_SIZE) - Min(offset, PAGE_SIZE))]

\* a vector of MetaTableDescriptor (24 bytes), FibBlockDescriptor (30),
\* StgBlockDescriptor (44), FibBlockDescriptorV7 (46), StgBlockDescriptorV7
\* (60) or DirItemRecord (192)
InitMetaVector ==
    /\ disk \in [entry_size : {24, 30, 44, 46, 60, 192}]
    /\ call = [op |-> "MetaVector"]
    /\ ret = [page_id |-> 0, offset |-> 0, length |-> 0]

\* vec.data(idx)
MetaVectorData ==
    /\ call.op = "MetaVector"
    /\ \E idx \in 0..(VbkVectorEntries - 1) :
         /\ call' = [op |-> "data", idx |-> idx]
         /\ ret' = MetaVector_data(disk.entry_size, idx)
    /\ UNCHANGED disk

SpecMetaVector == InitMetaVector /\ [][MetaVectorData]_vars

\* C25: a page carries (PAGE_SIZE - 8) / E entries from offset 8, so entry idx
\* is read from page idx div that number at offset 8 + (idx mod that number)
\* * E, and all E bytes of it lie inside the page.
C25_PageLayout ==
    call.op = "data" =>
        LET E == disk.entry_size
            entries_per_page == (PAGE_SIZE - 8) \div E
        IN /\ ret.page_id = call.idx \div entries_per_page
           /\ ret.offset = 8 + (call.idx % entries_per_page) * E
           /\ ret.offset + E <= PAGE_SIZE
           /\ ret.length = E

(***************************************************************************)
(* VBK descriptor variants: VBK.__init__, VBK.is_v7 and                     *)
(* FibMetaSparseTable.__init__ of backup/vbk.py                             *)
(***************************************************************************)

\* format versions 1..VbkFormatVersions, and 0x10008
VbkFormatVersions == 13

\* VBK.is_v7()
VBK_is_v7(format_version) ==
    format_version = 7 \/ format_version = 65544 \/ format_version >= 9

\* an opened VBK: VBK.__init__ picks the type of the block store with
\* `StgBlockDescriptorV7 if self.is_v7 else StgBlockDescriptor`, where
\* self.is_v7 is the method itself, not its result, and a method is true
InitVBKDescriptors ==
    /\ \E format_version \in (1..VbkFormatVersions) \cup {65544} :
         LET is_v7 == TRUE
         IN disk = [format_version |-> format_version,
                    block_store_type |-> IF is_v7 THEN "StgBlockDescriptorV7"
                                         ELSE "StgBlockDescriptor"]
    /\ call = [op |-> "VBK"]
    /\ ret = [type |-> "", table_count |-> 0]

\* FibMetaSparseTable(vbk, page, count): its descriptor type and the number of
\* its tables
FibMetaSparseTableNew ==
    /\ call.op = "VBK"
    /\ \E count \in {0, 1, 1087, 1088, 1089, 2176, 2177, 5000} :
         /\ call' = [op |-> "FibMetaSparseTable", count |-> count]
         /\ ret' = [type |-> IF VBK_is_v7(disk.format_version) THEN "FibBlockDescriptorV7"
                             ELSE "FibBlockDescriptor",
                    table_count |-> (count + 1088 - 1) \div 1088]
    /\ UNCHANGED disk

SpecVBKDescriptors == InitVBKDescriptors /\ [][FibMetaSparseTableNew]_vars

\* C26: the block store and the FIB table use the V7 descriptors exactly when
\* format_version is 7, 0x10008 or at least 9, and the legacy descriptors for
\* every other version.
C26_DescriptorVariants ==
    call.op = "FibMetaSparseTable" =>
        LET v7 == disk.format_version = 7 \/ disk.format_version = 65544
                  \/ disk.format_version >= 9
        IN /\ disk.block_store_type = IF v7 THEN "StgBlockDescriptorV7" ELSE "StgBlockDescriptor"
           /\ ret.type = IF v7 THEN "FibBlockDescriptorV7" ELSE "FibBlockDescriptor"

(***************************************************************************)
(* VMDK SESparse grains: SESparseExtent._gt and _grain of disk/vmdk.py.     *)
(* The 64-bit directory and table entries are sets of bit positions.        *)
(***************************************************************************)

\* sectors of the largest grain table
SESparseTableSectors == 2

\* a _grain that shifts the low bits by a sector (9 bits) in place of 12
SESparseExtent_grainBySector(extent, idx) ==
    LET table == idx \div extent.num_gte_per_gt
        entry == idx % extent.num_gte_per_gt
        offset == extent.gd[table + 1]
        grain == extent.gt[(WordValue(offset \cap (0..31)) * extent.num_gte_per_gt) + entry + 1]
        SESPARSE_GRAIN_TYPE_MASK == 60..63              \* 0xF000000000000000
        SESPARSE_GRAIN_TYPE_UNALLOCATED == {}           \* 0x0000000000000000
        SESPARSE_GRAIN_TYPE_FALLTHROUGH == {60}         \* 0x1000000000000000
        SESPARSE_GRAIN_TYPE_ZERO == {61}                \* 0x2000000000000000
        SESPARSE_GRAIN_TYPE_ALLOCATED == {60, 61}       \* 0x3000000000000000
        grain_type == grain \cap SESPARSE_GRAIN_TYPE_MASK
        cluster_sector == {b - 48 : b \in grain \cap (48..59)} \cup {b + 9 : b \in grain \cap (0..47)}
    IN IF offset = {} \/ offset \cap (32..63) # {60}
         THEN [error |-> "", grain |-> 0, cluster_sector |-> {}]
       ELSE IF grain_type \in {SESPARSE_GRAIN_TYPE_UNALLOCATED, SESPARSE_GRAIN_TYPE_FALLTHROUGH}
         THEN [error |-> "", grain |-> 0, cluster_sector |-> {}]
       ELSE IF grain_type = SESPARSE_GRAIN_TYPE_ZERO
         THEN [error |-> "", grain |-> 1, cluster_sector |-> {}]
       ELSE IF grain_type = SESPARSE_GRAIN_TYPE_ALLOCATED
         THEN [error |-> "",
               grain |-> extent.grain_offset + WordValue(cluster_sector) * extent.grainSize,
               cluster_sector |-> cluster_sector]
       ELSE [error |-> "ValueError", grain |-> 0, cluster_sector |-> {}]

\* SESparseExtent._grain(idx), with _gt(table) for the grain table: the value
\* returned (0 unallocated, 1 zero grain, else the sector of the grain) and the
\* local cluster_sector
SESparseExtent_grain(extent, idx) ==
    LET table == idx \div extent.num_gte_per_gt
        entry == idx % extent.num_gte_per_gt
        offset == extent.gd[table + 1]
        \* _gt: None unless the top 32 bits are 0x10000000; the low 32 bits
        \* are the number of the table, whose entries are read from the grain
        \* table area at offset * num_gte_per_gt
        grain == extent.gt[(WordValue(offset \cap (0..31)) * extent.num_gte_per_gt) + entry + 1]
        SESPARSE_GRAIN_TYPE_MASK == 60..63              \* 0xF000000000000000
        SESPARSE_GRAIN_TYPE_UNALLOCATED == {}           \* 0x0000000000000000
        SESPARSE_GRAIN_TYPE_FALLTHROUGH == {60}         \* 0x1000000000000000
        SESPARSE_GRAIN_TYPE_ZERO == {61}                \* 0x2000000000000000
        SESPARSE_GRAIN_TYPE_ALLOCATED == {60, 61}       \* 0x3000000000000000
        grain_type == grain \cap SESPARSE_GRAIN_TYPE_MASK
        cluster_sector_hi == {b - 48 : b \in grain \cap (48..59)}
        cluster_sector_lo == {b + 12 : b \in grain \cap (0..47)}
        cluster_sector == cluster_sector_hi \cup cluster_sector_lo
    IN IF offset = {} \/ offset \cap (32..63) # {60}
         THEN [error |-> "", grain |-> 0, cluster_sector |-> {}]
       ELSE IF grain_type \in {SESPARSE_GRAIN_TYPE_UNALLOCATED, SESPARSE_GRAIN_TYPE_FALLTHROUGH}
         THEN [error |-> "", grain |-> 0, cluster_sector |-> {}]
       ELSE IF grain_type = SESPARSE_GRAIN_TYPE_ZERO
         THEN [error |-> "", grain |-> 1, cluster_sector |-> {}]
       ELSE IF grain_type = SESPARSE_GRAIN_TYPE_ALLOCATED
         THEN [error |-> "",
               grain |-> extent.grain_offset + WordValue(cluster_sector) * extent.grainSize,
               cluster_sector |-> cluster_sector]
       ELSE [error |-> "ValueError", grain |-> 0, cluster_sector |-> {}]

\* SESparseExtent of a file with these header fields: a grain directory of
\* one sector whose first two entries are gd0 and gd1, grain tables of
\* grainTableSize sectors and a grain table area that holds two of the
\* largest. Entry 0 of the area takes every type nibble with bits 48 and 59
\* and bits 0 and 2 set or clear, entry 1 is a zero grain, entries 63, 64 and
\* 128 are allocated; the others are unallocated
InitSESparse ==
    /\ \E gd0 \in {{}, {60}, {60, 0}, {60, 61}, {60, 32}} : \E gd1 \in {{60}, {60, 0}} :
       \E type \in SUBSET {60, 61, 62} : \E hi \in SUBSET {48, 59} : \E lo \in SUBSET {0, 2} :
       \E grain_offset \in {0, 2048} : \E grainSize \in {1, 8} :
       \E grainTableSize \in 1..SESparseTableSectors :
         LET num_gt == (1 * SECTOR_SIZE) \div 8
             area == (2 * SESparseTableSectors * SECTOR_SIZE) \div 8
         IN disk = [gd |-> [t \in 1..num_gt |-> IF t = 1 THEN gd0 ELSE IF t = 2 THEN gd1 ELSE {}],
                    num_gte_per_gt |-> (grainTableSize * SECTOR_SIZE) \div 8,
                    gt |-> [e \in 1..area |->
                              CASE e = 1 -> type \cup hi \cup lo
                                [] e = 2 -> {61}
                                [] e = 64 -> {60, 61, 48}
                                [] e = 65 -> {60, 61, 1}
                                [] e = 129 -> {60, 61, 59, 0}
                                [] OTHER -> {}],
                    grain_offset |-> grain_offset, grainSize |-> grainSize]
    /\ call = [op |-> "SESparseExtent"]
    /\ ret = [error |-> "", grain |-> 0, cluster_sector |-> {}]

\* extent._grain(idx) for grains in the first two tables
SESparseGrain ==
    /\ call.op = "SESparseExtent"
    /\ \E idx \in {0, 1, 63, 64, 65, 127, 128, 129} :
         /\ idx < 2 * disk.num_gte_per_gt
         /\ call' = [op |-> "_grain", idx |-> idx]
         /\ ret' = SESparseExtent_grain(disk, idx)
    /\ UNCHANGED disk

SpecSESparse == InitSESparse /\ [][SESparseGrain]_vars

\* C27 as stated: for an entry tagged allocated the cluster sector is
\* (hi12 << 48) | (lo48 << 12), hi12 being bits 48..59 and lo48 bits 0..47 of
\* the entry.
C27_SectorAsStated ==
    LET offset == disk.gd[(call.idx \div disk.num_gte_per_gt) + 1]
        grain == disk.gt[(WordValue(offset \cap (0..31)) * disk.num_gte_per_gt)
                         + (call.idx % disk.num_gte_per_gt) + 1]
    IN (/\ call.op = "_grain"
        /\ offset \cap (32..63) = {60}
        /\ grain \cap (60..63) = {60, 61})
         => ret.cluster_sector = {(b - 48) + 48 : b \in grain \cap (48..59)}
                                 \cup {b + 12 : b \in grain \cap (0..47)}

\* C27: for an entry tagged allocated the cluster sector is
\* hi12 | (lo48 << 12), bits 48..59 of the entry moved down to bits 0..11 and
\* bits 0..47 moved up by 12, and the value returned is
\* grain_area_offset + cluster_sector * grain_size_sectors.
C27_SESparseSector ==
    LET offset == disk.gd[(call.idx \div disk.num_gte_per_gt) + 1]
        grain == disk.gt[(WordValue(offset \cap (0..31)) * disk.num_gte_per_gt)
                         + (call.idx % disk.num_gte_per_gt) + 1]
    IN (/\ call.op = "_grain"
        /\ offset \cap (32..63) = {60}
        /\ grain \cap (60..63) = {60, 61})
         => /\ ret.error = ""
            /\ ret.cluster_sector = {b - 48 : b \in grain \cap (48..59)}
                                    \cup {b + 12 : b \in grain \cap (0..47)}
            /\ ret.grain = disk.grain_offset + WordValue(ret.cluster_sector) * disk.grainSize

\* an allocated entry with bits on both sides of bit 48 has been translated
C27_Witness ==
    /\ call.op = "_grain"
    /\ call.idx = 0
    /\ disk.gd[1] = {60}
    /\ disk.num_gte_per_gt = 64
    /\ disk.gt[1] = {60, 61, 59, 48, 2, 0}
    /\ disk.grainSize = 8 /\ disk.grain_offset = 2048
    /\ ret.grain = 2048 + (2049 + 5 * 4096) * 8

(***************************************************************************)
(* Apple ASIF: ASIF.__init__ and DataStream._read of disk/asif.py.          *)
(* A table entry is a pair <<flags, chunk>>: the nine flag bits and the     *)
(* 55-bit chunk number; the stream is cut in cells of one chunk.            *)
(***************************************************************************)

AsifChunks == 30

\* ASIF.__init__: the sizes derived from the header
ASIF_init(header) ==
    LET block_size == header.block_size
        chunk_size == header.chunk_size
        blocks_per_chunk == chunk_size \div block_size
        reserved_size == 4 * chunk_size
        num_reserved_table_entries ==
            IF reserved_size < blocks_per_chunk THEN 1 ELSE reserved_size \div blocks_per_chunk
        max_table_entries == chunk_size \div 8
        num_table_entries ==
            max_table_entries - (max_table_entries % (num_reserved_table_entries + 1))
        num_reserved_directory_entries ==
            (num_reserved_table_entries + num_table_entries) \div (num_reserved_table_entries + 1)
        num_usable_entries == num_table_entries - num_reserved_directory_entries
        size_per_table == num_usable_entries * chunk_size
        max_size == block_size * header.max_sector_count
    IN [block_size |-> block_size,
        chunk_size |-> chunk_size,
        size |-> header.sector_count * block_size,
        max_size |-> max_size,
        blocks_per_chunk |-> blocks_per_chunk,
        num_reserved_table_entries |-> num_reserved_table_entries,
        max_table_entries |-> max_table_entries,
        num_table_entries |-> num_table_entries,
        num_reserved_directory_entries |-> num_reserved_directory_entries,
        num_usable_entries |-> num_usable_entries,
        size_per_table |-> size_per_table,
        num_directory_entries |-> (size_per_table + max_size - 1) \div size_per_table]

\* a data_idx that skips no slot
DataStream_data_idxFlat(asif, relative_block_index) ==
    relative_block_index \div asif.blocks_per_chunk

\* DataStream._read: data_idx of a block of the table
DataStream_data_idx(asif, relative_block_index) ==
    ((relative_block_index \div asif.blocks_per_chunk)
     + (relative_block_index \div asif.blocks_per_chunk) * asif.num_reserved_table_entries)
    \div asif.num_reserved_table_entries

\* DataStream._read(offset, length): the while loop; result is the bytes so
\* far, slots the <<table.index, relative_block_index, data_idx>> of every turn
RECURSIVE DataStream_read(_, _, _, _, _, _)
DataStream_read(asif, tables, offset, length, result, slots) ==
    IF length = 0 THEN [error |-> "", data |-> result, slots |-> slots]
    ELSE
      LET index == offset \div asif.size_per_table
          virtual_offset == index * asif.size_per_table
          relative_block_index ==
              (offset \div asif.block_size) - (virtual_offset \div asif.block_size)
          data_idx == DataStream_data_idx(asif, relative_block_index)
          chunk == tables[index][data_idx + 1][2]
          raw_offset == chunk * asif.chunk_size
          read_length == Min(length, asif.chunk_size)
          piece == IF chunk = 0 THEN Zeros(read_length, asif.chunk_size)
                   ELSE Data("asif", raw_offset, read_length, asif.chunk_size)
      IN IF index >= asif.num_directory_entries \/ data_idx >= asif.num_table_entries
           THEN [error |-> "IndexError", data |-> <<>>,
                 slots |-> Append(slots, <<index, relative_block_index, data_idx>>)]
         ELSE Strict(<<result \o piece, Append(slots, <<index, relative_block_index, data_idx>>)>>,
                     LAMBDA r : DataStream_read(asif, tables, offset + read_length,
                                                length - read_length, r[1], r[2]))

\* images of 1 to AsifChunks chunks with room for none or five more; the
\* tables hold a chunk number in every slot, or zero in every third slot,
\* under varying flag bits
InitASIF ==
    /\ \E geometry \in {<<1, 64>>, <<1, 128>>, <<2, 128>>, <<2, 256>>} :
       \E chunks \in 1..AsifChunks : \E room \in {0, 5} : \E sparse \in {0, 3} :
         LET per == geometry[2] \div geometry[1]
             asif == ASIF_init([block_size |-> geometry[1], chunk_size |-> geometry[2],
                                sector_count |-> chunks * per,
                                max_sector_count |-> (chunks + room) * per])
         IN disk = [asif |-> asif,
                    tables |-> [t \in 0..(asif.num_directory_entries - 1) |->
                                 [i \in 1..asif.num_table_entries |->
                                   <<(i + t) % 4,
                                     IF sparse # 0 /\ i % sparse = 0 THEN 0
                                     ELSE 100 + t * asif.num_table_entries + i>>]]]
    /\ call = [op |-> "ASIF"]
    /\ ret = [error |-> "", data |-> <<>>, slots |-> <<>>]

\* asif.open(reserved) and one _read of one or two chunks inside the stream
ASIFRead ==
    /\ call.op = "ASIF"
    /\ \E reserved \in BOOLEAN : \E n \in 1..2 :
       \E c \in 0..(AsifChunks + 5) :
         LET size == IF reserved THEN disk.asif.max_size ELSE disk.asif.size
             offset == c * disk.asif.chunk_size
             length == n * disk.asif.chunk_size
         IN /\ offset + length <= size
            /\ call' = [op |-> "_read", reserved |-> reserved, offset |-> offset, length |-> length]
            /\ ret' = DataStream_read(disk.asif, disk.tables, offset, length, <<>>, <<>>)
    /\ UNCHANGED disk

SpecASIF == InitASIF /\ [][ASIFRead]_vars

\* C28: every turn of DataStream._read uses slot q + floor(q / R) of the
\* table, q the chunk index within the table and R the number of reserved
\* table entries; the slot is below num_table_entries and is no reserved slot
\* (R modulo R + 1), and two chunks of a table never share a slot.
C28_TableSlot ==
    LET asif == disk.asif
        R == asif.num_reserved_table_entries
    IN /\ call.op = "_read" =>
            /\ ret.error = ""
            /\ Len(ret.slots) = call.length \div asif.chunk_size
            /\ \A k \in 1..Len(ret.slots) :
                 LET q == ((call.offset \div asif.chunk_size) + (k - 1)) % asif.num_usable_entries
                     data_idx == ret.slots[k][3]
                 IN /\ ret.slots[k][1] =
                         ((call.offset \div asif.chunk_size) + (k - 1)) \div asif.num_usable_entries
                    /\ ret.slots[k][2] \div asif.blocks_per_chunk = q
                    /\ data_idx = q + (q \div R)
                    /\ data_idx < asif.num_table_entries
                    /\ data_idx % (R + 1) # R
                    /\ ret.data[k] = IF disk.tables[ret.slots[k][1]][data_idx + 1][2] = 0 THEN ZERO
                                     ELSE <<"asif", disk.tables[ret.slots[k][1]][data_idx + 1][2]
                                                    * asif.chunk_size>>
       /\ \A q1, q2 \in 0..(asif.num_usable_entries - 1) :
            q1 # q2 => DataStream_data_idx(asif, q1 * asif.blocks_per_chunk)
                       # DataStream_data_idx(asif, q2 * asif.blocks_per_chunk)

\* a read of the last two chunks of a table of twelve usable entries, past
\* two reserved slots
C28_Witness ==
    /\ call.op = "_read"
    /\ disk.asif.num_reserved_table_entries = 4
    /\ disk.asif.num_usable_entries = 12
    /\ Len(ret.slots) = 2
    /\ ret.slots[1] = <<1, 10 * 128, 12>>
    /\ ret.slots[2] = <<1, 11 * 128, 13>>
    /\ ret.error = ""

(***************************************************************************)
(* Parallels DiskDescriptor.xml snapshots: Descriptor.get_snapshot_chain    *)
(* and Snapshots.find_shot of disk/hdd.py.  A GUID is a number, the NULL    *)
(* GUID is 0; one turn of the while loop is one step.  The list chain has   *)
(* no bound in the source.  The record ret keeps it whole while it has at   *)
(* most HddChainMax entries, more than a chain without a repeated shot can  *)
(* have; of a longer list it keeps the first HddChainMax entries and, in    *)
(* tail, whether the number of entries after them is odd (1) or even (2),   *)
(* so that every append is a step to another state.                         *)
(***************************************************************************)

NULL_GUID == 0
HddShots == 3
HddChainMax == 5

\* Snapshots.find_shot(guid): the index of the first shot with the GUID, None
\* where the source raises KeyError
Snapshots_find_shot(shots, guid) ==
    IF \E i \in 1..Len(shots) : shots[i].guid = guid
      THEN CHOOSE i \in 1..Len(shots) :
             /\ shots[i].guid = guid
             /\ \A j \in 1..(i - 1) : shots[j].guid # guid
      ELSE None

\* snapshot tables of HddShots shots; the parent of a shot is the NULL GUID,
\* a shot of the table (itself included) or a GUID the table does not hold
InitHDD ==
    /\ \E parent \in [1..HddShots -> 0..(HddShots + 1)] :
         disk = [shots |-> [i \in 1..HddShots |-> [guid |-> i, parent |-> parent[i]]]]
    /\ call = [op |-> "Descriptor"]
    /\ ret = [error |-> "", chain |-> <<>>, tail |-> 0, shot |-> None]

\* chain.append(guid) on the kept list
ChainAppend(r, guid) ==
    IF Len(r.chain) < HddChainMax
      THEN [r EXCEPT !.chain = Append(r.chain, guid)]
      ELSE [r EXCEPT !.tail = IF r.tail = 1 THEN 2 ELSE 1]

\* descriptor.get_snapshot_chain(guid) up to the while loop
GetSnapshotChain ==
    /\ call.op = "Descriptor"
    /\ \E guid \in 1..(HddShots + 1) :
         LET shot == Snapshots_find_shot(disk.shots, guid)
         IN /\ call' = [op |-> "get_snapshot_chain", guid |-> guid,
                        pc |-> IF shot = None THEN "raise" ELSE "while"]
            /\ ret' = IF shot = None
                        THEN [error |-> "KeyError", chain |-> <<>>, tail |-> 0, shot |-> None]
                      ELSE [error |-> "", chain |-> <<disk.shots[shot].guid>>, tail |-> 0,
                            shot |-> shot]
    /\ UNCHANGED disk

\* one test of the while condition, and the body when it holds
ChainStep ==
    /\ call.op = "get_snapshot_chain"
    /\ call.pc = "while"
    /\ IF disk.shots[ret.shot].parent # NULL_GUID
         THEN LET shot == Snapshots_find_shot(disk.shots, disk.shots[ret.shot].parent)
              IN IF shot = None
                   THEN /\ call' = [call EXCEPT !.pc = "raise"]
                        /\ ret' = [error |-> "KeyError", chain |-> <<>>, tail |-> 0,
                                   shot |-> None]
                   ELSE /\ call' = call
                        /\ ret' = ChainAppend([ret EXCEPT !.shot = shot], disk.shots[shot].guid)
         ELSE /\ call' = [call EXCEPT !.pc = "return"]
              /\ ret' = ret
    /\ UNCHANGED disk

\* the loop runs on while its condition holds
SpecHDD == InitHDD /\ [][GetSnapshotChain \/ ChainStep]_vars /\ WF_vars(ChainStep)

\* C29: get_snapshot_chain(guid) terminates for every snapshot table: every
\* call comes to return its chain, which ends at the shot whose parent is
\* the NULL GUID, or to raise an error; a cycle of parent links is not
\* followed forever.
C29_ChainTerminates ==
    [](call.op = "get_snapshot_chain"
       => <>(\/ call.op = "get_snapshot_chain" /\ call.pc = "raise"
             \/ /\ call.op = "get_snapshot_chain"
                /\ call.pc = "return"
                /\ ret.tail = 0
                /\ ret.chain[1] = call.guid
                /\ disk.shots[Snapshots_find_shot(disk.shots, ret.chain[Len(ret.chain)])].parent
                   = NULL_GUID))

(***************************************************************************)
(* XVA: _iter_block_files, XVAStream.__init__ and XVAStream._read of        *)
(* backup/xva.py, with verify off.  A tar member of the disk is a record    *)
(* [index, checksum, size]: the number in its name, whether the name ends   *)
(* in "checksum", and its size; a member is named by its place in the tar.  *)
(***************************************************************************)

BLOCK_SIZE == 1048576
XvaBlocks == 4

\* _iter_block_files: the for loop over the members from place i on; st holds
\* member_index, block_member and checksum_member, out the tuples yielded
RECURSIVE XVA_iter_block_files(_, _, _, _)
XVA_iter_block_files(members, i, st, out) ==
    IF i > Len(members) THEN out
    ELSE
      LET index == members[i].index
          member_index == IF st.member_index = None THEN index ELSE st.member_index
          yielded == IF member_index # index
                       THEN Append(out, <<member_index, st.block_member, st.checksum_member>>)
                     ELSE out
          next == [member_index |-> index,
                   block_member |-> IF members[i].checksum THEN st.block_member ELSE i,
                   checksum_member |-> IF members[i].checksum THEN i ELSE st.checksum_member]
      IN Strict(<<next, yielded>>,
                LAMBDA r : XVA_iter_block_files(members, i + 1, r[1], r[2]))

\* XVAStream.__init__: the for loop over the tuples from place k on; st holds
\* index, offset, _lookup and _members
RECURSIVE XVAStream_init(_, _, _, _)
XVAStream_init(members, files, k, st) ==
    IF k > Len(files) THEN [error |-> "", lookup |-> st.lookup, members |-> st.members]
    ELSE
      LET block_index == files[k][1]
          block_member == files[k][2]
          offset == IF block_index > st.index + 1
                      THEN st.offset + (block_index - (st.index + 1)) * BLOCK_SIZE
                    ELSE st.offset
          stored == block_member # None /\ members[block_member].size # 0
      IN IF block_member = None
           THEN [error |-> "AttributeError", lookup |-> <<>>, members |-> <<>>]
         ELSE Strict([index |-> block_index,
                      offset |-> IF stored THEN offset + members[block_member].size ELSE offset,
                      lookup |-> IF stored THEN Append(st.lookup, offset) ELSE st.lookup,
                      members |-> IF stored THEN Append(st.members, <<block_member, files[k][3]>>)
                                  ELSE st.members],
                     LAMBDA r : XVAStream_init(members, files, k + 1, r))

\* XVAStream._read(offset, length): the while loop; a block file read whole
\* is the cell <<"xva", place of the member>>
RECURSIVE XVAStream_read(_, _, _, _, _)
XVAStream_read(members, stream, offset, length, result) ==
    IF ~(length > 0) THEN [error |-> "", data |-> result]
    ELSE
      LET block_idx == Cardinality({i \in 1..Len(stream.lookup) : stream.lookup[i] <= offset})
          \* _lookup[block_idx - 1]: place -1 is the last one
          at == IF block_idx = 0 THEN Len(stream.lookup) ELSE block_idx
      IN IF stream.lookup = <<>> THEN [error |-> "IndexError", data |-> <<>>]
         ELSE LET nearest_offset == stream.lookup[at]
                  block_member == stream.members[at][1]
                  piece == IF offset >= nearest_offset + BLOCK_SIZE
                             THEN Zeros(BLOCK_SIZE, BLOCK_SIZE)
                           ELSE Data("xva", block_member, members[block_member].size, BLOCK_SIZE)
              IN Strict(result \o piece,
                        LAMBDA r : XVAStream_read(members, stream, offset + BLOCK_SIZE,
                                                  length - BLOCK_SIZE, r))

\* archives of a disk of XvaBlocks blocks: every block is absent from the
\* tar, stored as an empty file or stored as a full block, in rising order,
\* each block file followed by its checksum file or none of them
InitXVA ==
    /\ \E stored \in [0..(XvaBlocks - 1) -> {"absent", "empty", "full"}] :
       \E checksums \in BOOLEAN :
         LET RECURSIVE Tar(_)
             Tar(b) ==
               IF b = XvaBlocks THEN <<>>
               ELSE (IF stored[b] = "absent" THEN <<>>
                     ELSE <<[index |-> b, checksum |-> FALSE,
                             size |-> IF stored[b] = "full" THEN BLOCK_SIZE ELSE 0]>>
                          \o (IF checksums THEN <<[index |-> b, checksum |-> TRUE, size |-> 40]>>
                              ELSE <<>>))
                    \o Tar(b + 1)
         IN disk = [members |-> Tar(0), size |-> XvaBlocks * BLOCK_SIZE]
    /\ call = [op |-> "XVA"]
    /\ ret = [error |-> "", lookup |-> <<>>, members |-> <<>>, data |-> <<>>]

\* xva.open(ref) and one _read of one or two blocks of the stream
XVAOpenRead ==
    /\ call.op = "XVA"
    /\ \E c \in 0..(XvaBlocks - 1) : \E n \in 1..2 :
         LET files == XVA_iter_block_files(disk.members, 1,
                          [member_index |-> None, block_member |-> None,
                           checksum_member |-> None], <<>>)
             stream == XVAStream_init(disk.members, files, 1,
                           [index |-> 0, offset |-> 0, lookup |-> <<>>, members |-> <<>>])
             read == IF stream.error # "" THEN [error |-> stream.error, data |-> <<>>]
                     ELSE XVAStream_read(disk.members, stream, c * BLOCK_SIZE, n * BLOCK_SIZE, <<>>)
         IN /\ (c + n) * BLOCK_SIZE <= disk.size
            /\ call' = [op |-> "_read", offset |-> c * BLOCK_SIZE, length |-> n * BLOCK_SIZE]
            /\ ret' = [error |-> read.error, lookup |-> stream.lookup,
                       members |-> stream.members, data |-> read.data]
    /\ UNCHANGED disk

SpecXVA == InitXVA /\ [][XVAOpenRead]_vars

\* C30: the block index of an opened stream holds every non-empty block file
\* of the disk exactly once, the block of the highest index included, each
\* at the logical offset index * BLOCK_SIZE.
C30_BlockIndex ==
    call.op = "_read" =>
      \A m \in 1..Len(disk.members) :
        (~disk.members[m].checksum /\ disk.members[m].size # 0) =>
          /\ Cardinality({k \in 1..Len(ret.members) : ret.members[k][1] = m}) = 1
          /\ \A k \in 1..Len(ret.members) :
               ret.members[k][1] = m => ret.lookup[k] = disk.members[m].index * BLOCK_SIZE

====
